---- MODULE Spec2Model ----
(***************************************************************************)
(* Framework update checker: verdict extraction from a language-model      *)
(* answer (query_perplexity_api), PDF acquisition (download_document) and  *)
(* the orchestrator (run_framework_update_check).                          *)
(*                                                                         *)
(* Text is modelled as sequences of lexemes.  A Python value is a record   *)
(* [ty, v]: ty is the Python type, v the lexemes of its text.              *)
(***************************************************************************)
EXTENDS Integers, Sequences, FiniteSets, TLC

(***************************************************************************)
(* Python values                                                           *)
(***************************************************************************)
PyNone == [ty |-> "null", v |-> <<>>]
PyTrue == [ty |-> "bool", v |-> <<"true">>]
PyFalse == [ty |-> "bool", v |-> <<"false">>]
PyBool(b) == IF b THEN PyTrue ELSE PyFalse
PyStr(lex) == [ty |-> "str", v |-> lex]
PyNum(lexeme) == [ty |-> "num", v |-> <<lexeme>>]
PyList(lex) == [ty |-> "list", v |-> lex]
PyDict(lex) == [ty |-> "dict", v |-> lex]

\* Python truthiness: bool(x).
Truthy(x) ==
    CASE x.ty = "null" -> FALSE
      [] x.ty = "bool" -> x.v = <<"true">>
      [] x.ty = "num" -> x.v # <<"0">>
      [] OTHER -> x.v # <<>>

\* dict.get(key): None when the key is missing.
Get(d, key) == IF key \in DOMAIN d THEN d[key] ELSE PyNone

\* {**d, key: value}
DictPut(d, key, value) ==
    [k \in DOMAIN d \cup {key} |-> IF k = key THEN value ELSE d[k]]

(***************************************************************************)
(* Dates: datetime.strptime(text, fmt).date()                              *)
(***************************************************************************)
\* The digit lexemes of the model, with their value.
DigitLexemes ==
    { [s |-> "2024", n |-> 2024], [s |-> "2025", n |-> 2025], [s |-> "2026", n |-> 2026],
      [s |-> "01", n |-> 1], [s |-> "1", n |-> 1], [s |-> "02", n |-> 2],
      [s |-> "08", n |-> 8], [s |-> "8", n |-> 8], [s |-> "09", n |-> 9],
      [s |-> "10", n |-> 10], [s |-> "13", n |-> 13], [s |-> "30", n |-> 30],
      [s |-> "20251001", n |-> 20251001] }

IsDigits(s) == \E e \in DigitLexemes : e.s = s
NumVal(s) == (CHOOSE e \in DigitLexemes : e.s = s).n
NumLen(s) == IF NumVal(s) >= 10000 THEN 8 ELSE IF NumVal(s) >= 1000 THEN 4
             ELSE IF s \in {"1", "8"} THEN 1 ELSE 2

DaysInMonth(y, m) ==
    IF m = 2 THEN (IF y % 4 = 0 /\ (y % 100 # 0 \/ y % 400 = 0) THEN 29 ELSE 28)
    ELSE IF m \in {4, 6, 9, 11} THEN 30 ELSE 31

\* A calendar date, or NoDate when the text does not match the format.
NoDate == <<>>
IsDate(d) == d # NoDate

\* strptime directives: %Y is four digits, %m 1..12 and %d 1..31 in one or two digits;
\* the whole text must match and the date must exist.
FieldOk(dir, s) ==
    /\ IsDigits(s)
    /\ CASE dir = "Y" -> NumLen(s) = 4
         [] dir = "m" -> NumLen(s) <= 2 /\ NumVal(s) \in 1..12
         [] dir = "d" -> NumLen(s) <= 2 /\ NumVal(s) \in 1..31

\* fmt is <<directive, separator, directive, separator, directive>>.
Strptime(text, fmt) ==
    IF /\ text.ty = "str"
       /\ Len(text.v) = 5
       /\ text.v[2] = fmt[2] /\ text.v[4] = fmt[4]
       /\ \A i \in {1, 3, 5} : FieldOk(fmt[i], text.v[i])
    THEN LET field(dir) == NumVal(text.v[CHOOSE i \in {1, 3, 5} : fmt[i] = dir])
             y == field("Y")
             m == field("m")
             d == field("d")
         IN IF d <= DaysInMonth(y, m) THEN <<y, m, d>> ELSE NoDate
    ELSE NoDate

\* date_formats = ["%Y-%m-%d", "%Y/%m/%d", "%m-%d-%Y", "%m/%d/%Y"]
date_formats ==
    << <<"Y", "-", "m", "-", "d">>, <<"Y", "/", "m", "/", "d">>,
       <<"m", "-", "d", "-", "Y">>, <<"m", "/", "d", "/", "Y">> >>

\* The loop over date_formats: the first format that parses wins.
Min(S) == CHOOSE a \in S : \A b \in S : a <= b
FirstGood(tried, good, none) == IF good = {} THEN none ELSE tried[Min(good)]
FirstDate(tried) == FirstGood(tried, {i \in DOMAIN tried : tried[i] # NoDate}, NoDate)
ParseAnyFormat(text) ==
    FirstDate([i \in 1..Len(date_formats) |-> Strptime(text, date_formats[i])])

\* date <= date, date > date
DateLE(a, b) ==
    \/ a[1] < b[1]
    \/ a[1] = b[1] /\ a[2] < b[2]
    \/ a[1] = b[1] /\ a[2] = b[2] /\ a[3] <= b[3]
DateGT(a, b) == ~DateLE(a, b)

(***************************************************************************)
(* The answer text: a sequence of tokens.                                  *)
(*   fence_json  ```json          fence  ```                               *)
(*   lb  {        rb  }                                                     *)
(*   mem  a member  key: value  of an object (q: how the key is quoted:    *)
(*        dq "key", sq 'key', bare key)                                    *)
(*   key  "key":  followed by a nested object                              *)
(*   val  a JSON value that is not an object                               *)
(*   word, url, date  prose                                                *)
(*   ws  white space at a place where it matters: the ends of a text       *)
(***************************************************************************)
Tok(t, k, q, j) == [t |-> t, k |-> k, q |-> q, j |-> j]
FenceJson == Tok("fence_json", "", "", PyNone)
Fence == Tok("fence", "", "", PyNone)
LB == Tok("lb", "", "", PyNone)
RB == Tok("rb", "", "", PyNone)
Mem(k, j) == Tok("mem", k, "dq", j)
MemQ(k, q, j) == Tok("mem", k, q, j)
Key(k) == Tok("key", k, "dq", PyNone)
Val(j) == Tok("val", "", "", j)
Word(lexeme) == Tok("word", "", "", PyStr(<<lexeme>>))
UrlTok(lex) == Tok("url", "", "", PyStr(lex))
DateTok(lex) == Tok("date", "", "", PyStr(lex))
Space == Tok("ws", "", "", PyNone)

IsFence(tok) == tok.t \in {"fence_json", "fence"}

\* The least index i in from..Len(ts) with P(ts[i]), or 0.
MinOrZero(S) == IF S = {} THEN 0 ELSE Min(S)
FirstIndex(ts, P(_), from) == MinOrZero({i \in from..Len(ts) : P(ts[i])})

(***************************************************************************)
(* json.loads                                                              *)
(***************************************************************************)
\* What a parse yields: a dict (d), another value (j), or nothing.
NoParse == [kind |-> "none", d |-> <<>>, j |-> PyNone]
ParsedDict(d) == [kind |-> "dict", d |-> d, j |-> PyNone]
ParsedValue(j) == IF j.ty = "null" THEN NoParse ELSE [kind |-> "value", d |-> <<>>, j |-> j]

ParseFail == [ok |-> FALSE, d |-> <<>>, next |-> 0]

\* An object as the value of a member: what matters of it is whether it is empty.
NestedValue(d) == PyDict(IF DOMAIN d = {} THEN <<>> ELSE <<"members">>)

RECURSIVE ParseMembers(_, _, _, _)
\* The members of an object from ts[i] up to its closing brace.  outer is the stack of
\* the enclosing objects, each with the key the object being read belongs to.
ParseMembers(ts, i, acc, outer) ==
    IF i > Len(ts) THEN ParseFail
    ELSE CASE ts[i].t = "rb" ->
                IF outer = <<>> THEN [ok |-> TRUE, d |-> acc, next |-> i + 1]
                ELSE ParseMembers(ts, i + 1,
                        DictPut(outer[1].acc, outer[1].key, NestedValue(acc)), Tail(outer))
           [] ts[i].t = "mem" /\ ts[i].q = "dq" ->
                ParseMembers(ts, i + 1, DictPut(acc, ts[i].k, ts[i].j), outer)
           [] ts[i].t = "key" /\ ts[i].q = "dq" /\ i + 1 <= Len(ts) /\ ts[i + 1].t = "lb" ->
                ParseMembers(ts, i + 2, <<>>, <<[acc |-> acc, key |-> ts[i].k]>> \o outer)
           [] OTHER -> ParseFail

LoadedObject(ts, r) ==
    IF r.ok /\ r.next = Len(ts) + 1
    THEN [ok |-> TRUE, parsed |-> ParsedDict(r.d)]
    ELSE [ok |-> FALSE, parsed |-> NoParse]

\* json.loads(text): [ok |-> FALSE] is json.JSONDecodeError.
json_loads(ts) ==
    IF Len(ts) = 1 /\ ts[1].t = "val"
    THEN [ok |-> TRUE, parsed |-> ParsedValue(ts[1].j)]
    ELSE IF Len(ts) >= 2 /\ ts[1].t = "lb"
    THEN LoadedObject(ts, ParseMembers(ts, 2, <<>>, <<>>))
    ELSE [ok |-> FALSE, parsed |-> NoParse]

\* bool(parsed)
ParsedTruthy(p) ==
    CASE p.kind = "none" -> FALSE
      [] p.kind = "dict" -> DOMAIN p.d # {}
      [] OTHER -> Truthy(p.j)

(***************************************************************************)
(* _clean_response_content                                                 *)
(***************************************************************************)
RECURSIVE BraceScan(_, _, _)
\* The rest of a match of \{[^{}]*(?:\{[^{}]*\}[^{}]*)*\} after its opening brace:
\* the index of the closing brace, or 0.
BraceScan(ts, p, inner) ==
    IF p > Len(ts) THEN 0
    ELSE CASE ts[p].t = "lb" -> IF inner THEN 0 ELSE BraceScan(ts, p + 1, TRUE)
           [] ts[p].t = "rb" -> IF inner THEN BraceScan(ts, p + 1, FALSE) ELSE p
           [] OTHER -> BraceScan(ts, p + 1, inner)

NoMatch == [found |-> FALSE, text |-> <<>>]
Match(ts, i, j) == [found |-> TRUE, text |-> SubSeq(ts, i, j)]

\* re.search(r'\{[^{}]*(?:\{[^{}]*\}[^{}]*)*\}', text): the leftmost match.
\* The match that starts at the least index i with last[i] # 0 and ends at last[i].
LeftmostMatch(ts, last) ==
    IF \A i \in DOMAIN last : last[i] = 0 THEN NoMatch
    ELSE Match(ts, Min({i \in DOMAIN last : last[i] # 0}),
               last[Min({i \in DOMAIN last : last[i] # 0})])

\* re.search(r'\{[^{}]*(?:\{[^{}]*\}[^{}]*)*\}', text): the leftmost match.
SearchNestedBraces(ts) ==
    LeftmostMatch(ts,
        [i \in 1..Len(ts) |-> IF ts[i].t = "lb" THEN BraceScan(ts, i + 1, FALSE) ELSE 0])

\* The index of the first fence after index i, or 0; 0 when i is 0.
NextFence(ts, i) == IF i = 0 THEN 0 ELSE FirstIndex(ts, IsFence, i + 1)

\* The text between the fences at i and j; after the backticks of a fence_json token
\* comes its word "json".
Fenced(ts, i, j, after_json) ==
    IF j = 0 THEN NoMatch
    ELSE IF ts[i].t = "fence_json" /\ ~after_json
    THEN [found |-> TRUE, text |-> <<Word("json")>> \o SubSeq(ts, i + 1, j - 1)]
    ELSE Match(ts, i + 1, j - 1)

FencedFrom(ts, i, after_json) == Fenced(ts, i, NextFence(ts, i), after_json)

\* re.search(r'```json\s*(.*?)\s*```'): group 1, the text up to the next backticks.
SearchJsonFence(ts) == FencedFrom(ts, FirstIndex(ts, LAMBDA tok : tok.t = "fence_json", 1),
                   TRUE)

\* re.search(r'```\s*(.*?)\s*```'): a fence_json token opens with the same backticks.
SearchAnyFence(ts) == FencedFrom(ts, FirstIndex(ts, IsFence, 1), FALSE)

\* str.strip(): the text without the white space at its two ends.
strip(ts) ==
    LET keep == {i \in 1..Len(ts) : ts[i].t # "ws"}
    IN IF keep = {} THEN <<>>
       ELSE SubSeq(ts, Min(keep), CHOOSE a \in keep : \A b \in keep : a >= b)

\* The generic fence search ahead of the ```json one.
CleanChoice_any_fence_first(content, json_fence, any_fence, braces) ==
    IF (\E i \in 1..Len(content) : IsFence(content[i])) /\ any_fence.found
    THEN strip(any_fence.text)
    ELSE IF braces.found THEN strip(braces.text)
    ELSE strip(content)
\* The first of the three searches that finds something, else the text itself; each
\* return is stripped.
CleanChoice(content, json_fence, any_fence, braces) ==
    IF (\E i \in 1..Len(content) : content[i].t = "fence_json") /\ json_fence.found
    THEN strip(json_fence.text)
    ELSE IF (\E i \in 1..Len(content) : IsFence(content[i])) /\ any_fence.found
    THEN strip(any_fence.text)
    ELSE IF braces.found THEN strip(braces.text)
    ELSE strip(content)

_clean_response_content(content) ==
    CleanChoice(content, SearchJsonFence(content), SearchAnyFence(content),
                SearchNestedBraces(content))

(***************************************************************************)
(* Permissive recovery: json_patterns on the raw text, then repair         *)
(***************************************************************************)
\* The text "key" in double quotes (the patterns are matched with re.IGNORECASE).
HasQuotedKey(tok, key) == tok.t \in {"mem", "key"} /\ tok.q = "dq" /\ tok.k = key

\* re.search(r'\{.*?"<key>".*?\}', text, re.DOTALL): from the first brace that has the
\* key and a closing brace after it, lazily to the first closing brace after the key.
FirstAfter(ts, P(_), i) == IF i = 0 THEN 0 ELSE FirstIndex(ts, P, i + 1)
MatchOrNone(ts, i, j) == IF j = 0 THEN NoMatch ELSE Match(ts, i, j)
BraceWithKeyFrom(ts, key, i) ==
    MatchOrNone(ts, i,
        FirstAfter(ts, LAMBDA tok : tok.t = "rb",
            FirstAfter(ts, LAMBDA tok : HasQuotedKey(tok, key), i)))
SearchBraceWithKey(ts, key) ==
    BraceWithKeyFrom(ts, key, FirstIndex(ts, LAMBDA tok : tok.t = "lb", 1))

\* The keys of the "complete JSON structure" pattern, in its order.
full_shape_keys == <<"framework_name", "has_update", "latest_update_date", "document_url">>

RECURSIVE KeysInOrder(_, _, _, _)
\* The keys from number n on occur in this order in ts[from..to].
KeysInOrder(ts, from, to, n) ==
    IF n > Len(full_shape_keys) THEN TRUE
    ELSE /\ \E p \in from..to : HasQuotedKey(ts[p], full_shape_keys[n])
         /\ KeysInOrder(ts,
                Min({p \in from..to : HasQuotedKey(ts[p], full_shape_keys[n])}) + 1, to, n + 1)

\* re.search(r'\{[^}]*"framework_name"[^}]*"has_update"[^}]*"latest_update_date"[^}]*
\* "document_url"[^}]*\}'): no closing brace inside the match.
FullShapeEnd(ts, i, closing) ==
    IF ts[i].t = "lb" /\ closing # 0 /\ KeysInOrder(ts, i + 1, closing - 1, 1)
    THEN closing ELSE 0
SearchFullShape(ts) ==
    LeftmostMatch(ts,
        [i \in 1..Len(ts) |->
            FullShapeEnd(ts, i, FirstIndex(ts, LAMBDA tok : tok.t = "rb", i + 1))])

\* Lexemes in which a word character is followed by a colon.
ColonLexemes == {"https://", "http://"}
HasWordColon(j) == j.ty = "str" /\ \E i \in 1..Len(j.v) : j.v[i] \in ColonLexemes

\* json_str.replace("'", '"') then re.sub(r'(\w+):', r'"\1":', json_str): single quotes
\* become double quotes and a bare key gets its quotes, but every word before a colon
\* is quoted too, inside string values as well, which breaks the string ("broken").
Repair(ts) ==
    [i \in 1..Len(ts) |->
        IF ts[i].t \in {"mem", "key", "val", "url"} /\ HasWordColon(ts[i].j)
        THEN [ts[i] EXCEPT !.q = "broken"]
        ELSE IF ts[i].t \in {"mem", "key"} /\ ts[i].q \in {"sq", "bare"}
        THEN [ts[i] EXCEPT !.q = "dq"]
        ELSE ts[i]]

\* json_patterns, each searched in the raw content.
PatternMatch(content, n) ==
    CASE n = 1 -> SearchNestedBraces(content)
      [] n = 2 -> SearchBraceWithKey(content, "has_update")
      [] n = 3 -> SearchBraceWithKey(content, "document_url")
      [] n = 4 -> SearchFullShape(content)

\* The for loop over json_patterns: the first pattern that matches and whose repaired
\* match parses.
LoadRepaired(match) ==
    IF match.found THEN json_loads(Repair(match.text)) ELSE [ok |-> FALSE, parsed |-> NoParse]
FirstLoaded(loaded) ==
    FirstGood(loaded, {n \in DOMAIN loaded : loaded[n].ok}, [ok |-> FALSE, parsed |-> NoParse])
PermissiveRecovery(content) ==
    FirstLoaded([n \in 1..4 |-> LoadRepaired(PatternMatch(content, n))]).parsed

(***************************************************************************)
(* Heuristic text scan                                                     *)
(***************************************************************************)
\* Lexemes of the model that contain one of strong_update_indicators once lowercased
\* ('has been updated', ..., 'version', 'amendment', 'update', 'revision', 'supplement').
IndicatorLexemes == {"has been updated", "new version", "/files/amendment-", "latest amendment"}
IndicatorKeys == {"has_update", "latest_update_date", "version"}

\* has_update_mention: an indicator occurs in content.lower(), key names included.
has_update_mention(content) ==
    \E i \in 1..Len(content) :
        \/ content[i].t \in {"mem", "key"} /\ content[i].k \in IndicatorKeys
        \/ \E p \in 1..Len(content[i].j.v) : content[i].j.v[p] \in IndicatorLexemes

Schemes == {"https://", "http://"}
IsUrlText(j) == j.ty = "str" /\ Len(j.v) >= 2 /\ j.v[1] \in Schemes
Lower(lexeme) == IF lexeme = ".PDF" THEN ".pdf" ELSE lexeme
PdfLexemes == {".pdf", ".PDF", "/pdf/"}

\* str.lower().endswith('.pdf')
EndsWithPdf_case_sensitive(j) == j.ty = "str" /\ Len(j.v) >= 1 /\ j.v[Len(j.v)] = ".pdf"
EndsWithPdf(j) == j.ty = "str" /\ Len(j.v) >= 1 /\ Lower(j.v[Len(j.v)]) = ".pdf"

\* A match of r'https?://[^\s<>"{}|\\^`\[\]]+\.pdf' in one URL: up to its last ".pdf".
PdfUrlEnds(j, ignorecase) ==
    {i \in 3..Len(j.v) : IF ignorecase THEN Lower(j.v[i]) = ".pdf" ELSE j.v[i] = ".pdf"}
PdfUrlMatches(j, ignorecase) == IsUrlText(j) /\ PdfUrlEnds(j, ignorecase) # {}
Max(S) == CHOOSE a \in S : \A b \in S : a >= b
PdfUrlMatch(j, ignorecase) == PyStr(SubSeq(j.v, 1, Max(PdfUrlEnds(j, ignorecase))))

\* A match of r'https?://[^\s<>"{}|\\^`\[\]]+pdf[^\s<>"{}|\\^`\[\]]*': the whole URL.
ContainsPdfMatches(j) == IsUrlText(j) /\ \E i \in 3..Len(j.v) : j.v[i] \in PdfLexemes

RECURSIVE StripTrailingPunct(_)
\* re.sub(r'[.,;:!?)\]]+$', '', document_url)
StripTrailingPunct(lex) ==
    IF Len(lex) > 0 /\ lex[Len(lex)] \in {".", ",", ")"}
    THEN StripTrailingPunct(SubSeq(lex, 1, Len(lex) - 1))
    ELSE lex

\* The loop over url_patterns.  The second and third pattern match only texts the
\* first one matches, so the first and the last decide.
UrlChoice(content, first, last) ==
    IF first # 0
    THEN PyStr(StripTrailingPunct(PdfUrlMatch(content[first].j, TRUE).v))
    ELSE IF last # 0 THEN PyStr(StripTrailingPunct(content[last].j.v))
    ELSE PyNone
ExtractUrl(content) ==
    UrlChoice(content, FirstIndex(content, LAMBDA tok : PdfUrlMatches(tok.j, TRUE), 1),
              FirstIndex(content, LAMBDA tok : ContainsPdfMatches(tok.j), 1))

\* Month names as date_patterns matches them (re.IGNORECASE) and as the code then
\* looks for them (capitalised only).
MonthLexemes == {"October", "october", "August"}
CapitalisedMonths == {"October", "August"}
month_map(lexeme) == IF lexeme = "August" THEN "08" ELSE "10"
zfill2(lexeme) ==
    IF NumLen(lexeme) = 1
    THEN (CHOOSE e \in DigitLexemes : e.n = NumVal(lexeme) /\ e.s # lexeme).s
    ELSE lexeme

\* What a lexeme is to date_patterns: a year 20dd, a number of one or two digits,
\* a month name, a separator.
LexClass(lexeme) ==
    IF lexeme \in {"-", "/"} THEN "sep"
    ELSE IF lexeme \in MonthLexemes THEN "month"
    ELSE IF lexeme = " " THEN "space"
    ELSE IF lexeme = ", " THEN "comma"
    ELSE IF ~IsDigits(lexeme) THEN "other"
    ELSE LET len == NumLen(lexeme)
         IN IF len = 4 THEN (IF NumVal(lexeme) \in 2000..2099 THEN "year" ELSE "other")
            ELSE IF len <= 2 THEN "short" ELSE "other"

\* The lexeme classes date_patterns[n] matches, in order.
date_patterns ==
    << { <<"year", "sep", "short", "sep", "short">> },
       { <<"short", "sep", "short", "sep", "year">> },
       { <<"month", "space", "short", "comma", "year">>,
         <<"month", "space", "short", "space", "year">> },
       { <<"year">> } >>

DatePatternLen(n) == IF n = 4 THEN 1 ELSE 5

\* re.search(date_patterns[n], content).group(0): the leftmost match, or <<>>.
\* The positions <<token, lexeme>> where date_patterns[n] matches.
DateMatches(content, n, width, classes) ==
    {x \in UNION {{<<i, p>> : p \in 1..Len(content[i].j.v)} : i \in 1..Len(content)} :
        /\ x[2] + width - 1 <= Len(content[x[1]].j.v)
        /\ SubSeq(classes[x[1]], x[2], x[2] + width - 1) \in date_patterns[n]}
Leftmost(at) == CHOOSE a \in at : \A b \in at : a[1] < b[1] \/ (a[1] = b[1] /\ a[2] <= b[2])
Window(content, x, width) == SubSeq(content[x[1]].j.v, x[2], x[2] + width - 1)
LeftmostWindow(content, at, width) ==
    IF at = {} THEN <<>> ELSE Window(content, Leftmost(at), width)
DateSearch(content, n) ==
    LeftmostWindow(content,
        DateMatches(content, n, DatePatternLen(n),
            [i \in 1..Len(content) |->
                [p \in 1..Len(content[i].j.v) |-> LexClass(content[i].j.v[p])]]),
        DatePatternLen(n))

\* The normalisation of a matched date_str to YYYY-MM-DD; <<>> is latest_date = None.
NormaliseDate(date_str) ==
    IF \E i \in 1..Len(date_str) : date_str[i] = "/"
    THEN IF date_str[2] = "/" /\ date_str[4] = "/"
         THEN IF NumLen(date_str[1]) = 4
              THEN <<date_str[1], "-", date_str[3], "-", date_str[5]>>
              ELSE <<date_str[5], "-", date_str[1], "-", date_str[3]>>
         ELSE <<>>
    ELSE IF \E i \in 1..Len(date_str) : date_str[i] = "-"
    THEN date_str
    ELSE IF \E i \in 1..Len(date_str) : date_str[i] \in CapitalisedMonths
    THEN <<date_str[5], "-", month_map(date_str[1]), "-", zfill2(date_str[3])>>
    ELSE <<>>

\* The loop over date_patterns: the first pattern whose match normalises.
FirstNormalised(found) == FirstGood(found, {n \in DOMAIN found : found[n] # <<>>}, <<>>)
ExtractDate(content) ==
    FirstNormalised([n \in 1..4 |-> NormaliseDate(DateSearch(content, n))])

\* "Determine if there's an update": has_update of the text analysis.
\* The decision with the date looked at before the URL.
HasUpdateDecision_date_first(mention, document_url, latest_date, latest_date_obj, last_known_obj) ==
    IF latest_date # <<>> /\ latest_date_obj # NoDate /\ last_known_obj # NoDate
    THEN DateGT(latest_date_obj, last_known_obj)
    ELSE IF Truthy(document_url) THEN TRUE
    ELSE mention
\* The decision by the date, and only with an update-indicating phrase.
HasUpdateDecision_needs_mention(mention, document_url, latest_date, latest_date_obj, last_known_obj) ==
    IF Truthy(document_url) THEN TRUE
    ELSE IF latest_date # <<>> /\ latest_date_obj # NoDate /\ last_known_obj # NoDate
    THEN mention /\ DateGT(latest_date_obj, last_known_obj)
    ELSE mention
\* "Determine if there's an update": a URL decides; else a date that parses decides by
\* comparison with the baseline; else the phrases decide.
HasUpdateDecision(mention, document_url, latest_date, latest_date_obj, last_known_obj) ==
    IF Truthy(document_url) THEN TRUE
    ELSE IF latest_date # <<>> /\ latest_date_obj # NoDate /\ last_known_obj # NoDate
    THEN DateGT(latest_date_obj, last_known_obj)
    ELSE mention
HeuristicHasUpdate(content, document_url, latest_date, last_updated_date) ==
    HasUpdateDecision(has_update_mention(content), document_url, latest_date,
        ParseAnyFormat(PyStr(latest_date)), Strptime(last_updated_date, date_formats[1]))

\* content[:300]
NotesOf(content) == IF Len(content) = 0 THEN PyStr(<<>>) ELSE PyStr(<<"raw content">>)

\* The "default response based on text content".
Verdict5(has_update, latest_update_date, url, notes) ==
    [k \in {"has_update", "latest_update_date", "document_url", "version", "notes"} |->
        CASE k = "has_update" -> has_update
          [] k = "latest_update_date" -> latest_update_date
          [] k = "document_url" -> url
          [] k = "version" -> PyNone
          [] k = "notes" -> notes]
ScanVerdict(content, document_url, latest_date, last_updated_date) ==
    ParsedDict(Verdict5(
        PyBool(HeuristicHasUpdate(content, document_url, latest_date, last_updated_date)),
        IF latest_date # <<>> THEN PyStr(latest_date) ELSE last_updated_date,
        document_url, NotesOf(content)))
HeuristicScan(content, last_updated_date) ==
    ScanVerdict(content, ExtractUrl(content), ExtractDate(content), last_updated_date)

(***************************************************************************)
(* query_perplexity_api, from the answer text on                           *)
(***************************************************************************)
\* The tier that produced parsed, and parsed: the strict parse of the cleaned text;
\* on json.JSONDecodeError the patterns; when parsed is still None the text scan.
\* The tiers chosen by "if not parsed" alone.
TierChoice_falsy(strict, recovered, scanned) ==
    IF strict.ok /\ ParsedTruthy(strict.parsed)
    THEN [tier |-> "strict", parsed |-> strict.parsed]
    ELSE IF recovered.kind # "none" THEN [tier |-> "permissive", parsed |-> recovered]
    ELSE [tier |-> "heuristic", parsed |-> scanned]
\* json.loads of the cleaned text; in its except clause the patterns; "if parsed is
\* None", still in the except clause, the text scan.
TierChoice(strict, recovered, scanned) ==
    IF strict.ok THEN [tier |-> "strict", parsed |-> strict.parsed]
    ELSE IF recovered.kind # "none" THEN [tier |-> "permissive", parsed |-> recovered]
    ELSE [tier |-> "heuristic", parsed |-> scanned]
ExtractParsed(content, last_updated_date) ==
    TierChoice(json_loads(_clean_response_content(content)), PermissiveRecovery(content),
               HeuristicScan(content, last_updated_date))

\* "Final fallback - return no update".
NeutralVerdict(last_updated_date) ==
    Verdict5(PyFalse, last_updated_date, PyNone, PyStr(<<"Failed to parse API response">>))

Returned(d) == [raised |-> "none", verdict |-> d]
Raised(exc) == [raised |-> exc, verdict |-> <<>>]

\* The comparison without the test of document_url.
DateOrdering_any_url(d, latest_date, last_known) ==
    IF IsDate(latest_date) /\ (~IsDate(last_known) \/ DateLE(latest_date, last_known))
    THEN Returned([d EXCEPT !["has_update"] = PyFalse])
    ELSE Returned(d)
\* "Validate date ordering per business rules": the verdict with has_update revoked or
\* kept.  strptime raises TypeError for a date that is no string, which no handler here
\* catches; the ValueError of an unparseable date is caught inside the format loop.
DateOrdering(d, latest_date, last_known) ==
    IF ~IsDate(latest_date) THEN Returned(d)
    ELSE IF ~IsDate(last_known)
    THEN \* except (ValueError, AttributeError)
         IF ~Truthy(Get(d, "document_url"))
         THEN Returned([d EXCEPT !["has_update"] = PyFalse]) ELSE Returned(d)
    ELSE IF DateLE(latest_date, last_known) /\ ~Truthy(Get(d, "document_url"))
    THEN Returned([d EXCEPT !["has_update"] = PyFalse])
    ELSE Returned(d)
ValidateDateOrdering(d, last_updated_date) ==
    IF ~(Truthy(Get(d, "has_update")) /\ Truthy(Get(d, "latest_update_date")))
    THEN Returned(d)
    ELSE IF d["latest_update_date"].ty # "str" THEN Raised("TypeError")
    ELSE DateOrdering(d, ParseAnyFormat(d["latest_update_date"]),
                      Strptime(last_updated_date, date_formats[1]))

\* The validation that drops a document_url that is no PDF link.
ValidateDocumentUrl_drops_page(d) ==
    IF Truthy(Get(d, "document_url")) /\ d["document_url"].ty # "str"
    THEN Raised("AttributeError")
    ELSE IF Truthy(Get(d, "document_url")) /\ ~EndsWithPdf(d["document_url"])
    THEN Returned([d EXCEPT !["document_url"] = PyNone])
    ELSE Returned(d)
\* "Validate document_url": doc_url.lower() of a value that is no string raises.
ValidateDocumentUrl(d) ==
    IF Truthy(Get(d, "document_url")) /\ d["document_url"].ty # "str"
    THEN Raised("AttributeError")
    ELSE Returned(d)

\* "if parsed: ... else: Final fallback": the dict that is validated.
VerdictOf(parsed, last_updated_date) ==
    IF ParsedTruthy(parsed) THEN parsed.d ELSE NeutralVerdict(last_updated_date)

ThenValidateUrl(validated) ==
    IF validated.raised # "none" THEN validated ELSE ValidateDocumentUrl(validated.verdict)

\* Lines 396 to 452: a truthy parsed that is no dict has no get, and the first
\* parsed.get raises AttributeError.
ValidateParsed(parsed, last_updated_date) ==
    IF ParsedTruthy(parsed) /\ parsed.kind # "dict" THEN Raised("AttributeError")
    ELSE ThenValidateUrl(
            ValidateDateOrdering(VerdictOf(parsed, last_updated_date), last_updated_date))

WithExtracted(outcome, extracted) ==
    [raised |-> outcome.raised, verdict |-> outcome.verdict, extracted |-> extracted]
QueryFrom(extracted, last_updated_date) ==
    WithExtracted(ValidateParsed(extracted.parsed, last_updated_date), extracted)

\* The function from the answer text to what it returns or raises, with the parsed
\* it had before validation.
query_perplexity_api(content, last_updated_date) ==
    QueryFrom(ExtractParsed(content, last_updated_date), last_updated_date)

(***************************************************************************)
(* The answers and baselines the model runs on                             *)
(***************************************************************************)
\* Words of prose put around an embedded object: 0..MaxPad of them.
MaxPad == 1

DateText(a, sep, b, c) == PyStr(<<a, sep, b, sep, c>>)
Baselines == {DateText("2025", "-", "09", "13"), DateText("2025", "-", "10", "01")}

UrlAmendment == <<"https://", "x.org", "/files/amendment-", "2025", ".pdf">>
UrlUpd == <<"https://", "x.org", "/upd", ".pdf">>
UrlAlt == <<"https://", "y.org", "/alt", ".pdf">>
UrlUpper == <<"https://", "x.org", "/upd", ".PDF">>
UrlQuery == <<"https://", "x.org", "/upd", ".pdf", "?v=2">>
UrlPage == <<"https://", "x.org", "/page">>
UrlViewer == <<"https://", "x.org", "/pdf/", "view", ".">>

\* A member the object does not have.
Absent == [ty |-> "absent", v |-> <<>>]

HasUpdateValues == {PyTrue, PyFalse, Absent, PyStr(<<"yes">>)}
DateValues ==
    { DateText("2025", "-", "10", "01"), DateText("2025", "-", "08", "01"),
      DateText("2025", "-", "09", "13"), DateText("2025", "/", "10", "01"),
      DateText("10", "/", "01", "2025"), DateText("08", "-", "01", "2025"),
      DateText("2025", "-", "13", "01"), DateText("2025", "-", "02", "30"),
      PyStr(<<"October", " ", "1", ", ", "2025">>), PyStr(<<"October", " ", "2025">>),
      PyStr(<<>>), PyNone, Absent, PyNum("20251001") }
UrlValues ==
    { PyStr(UrlUpd), PyStr(UrlAmendment), PyStr(UrlPage), PyStr(UrlUpper),
      PyStr(<<>>), PyNone, Absent, PyNum("1") }

OptMem(k, q, j) == IF j = Absent THEN <<>> ELSE <<MemQ(k, q, j)>>

\* The members of a verdict object, keys quoted as q.
Members(q, hu, date, url) ==
    <<MemQ("framework_name", q, PyStr(<<"X">>))>> \o OptMem("has_update", q, hu)
    \o OptMem("latest_update_date", q, date) \o OptMem("document_url", q, url)
    \o <<MemQ("version", q, PyStr(<<"v2">>)), MemQ("notes", q, PyStr(<<"minor">>))>>

Object(q, hu, date, url) == <<LB>> \o Members(q, hu, date, url) \o <<RB>>

RECURSIVE Pad(_)
Pad(n) == IF n = 0 THEN <<>> ELSE <<Word("here is the answer")>> \o Pad(n - 1)

\* An object as the service may send it: alone, fenced, inside prose, after a remark
\* in braces, with a nested object, in single quotes, with bare keys, or cut short.
Wrappings(hu, date, url) ==
    LET obj == Object("dq", hu, date, url)
    IN { obj,
         <<FenceJson>> \o obj \o <<Fence>>,
         <<Fence>> \o obj \o <<Fence>>,
         <<Word("note"), Fence, Word("draft"), Fence, FenceJson>> \o obj \o <<Fence>>,
         <<LB, Word("remark"), RB>> \o obj,
         <<LB>> \o Members("dq", hu, date, url) \o <<Key("meta"), LB, RB, RB>>,
         <<LB>> \o Members("dq", hu, date, url)
              \o <<Key("meta"), LB, Key("inner"), LB, RB, RB, RB>>,
         Object("sq", hu, date, url),
         Object("bare", hu, date, url),
         <<LB>> \o Members("dq", hu, date, url) }
    \cup { Pad(n) \o obj \o <<Word("thanks")>> : n \in 0..MaxPad }

\* Answers that are valid JSON but no verdict object, and answers in prose.
OtherAnswers ==
    { <<Val(PyList(<<"1">>))>>, <<Val(PyList(<<>>))>>, <<Val(PyNum("1"))>>,
      <<Val(PyNum("0"))>>, <<Val(PyStr(<<"no update">>))>>, <<Val(PyNone)>>,
      <<Val(PyFalse)>>, <<Val(PyTrue)>>, <<LB, RB>>, <<>>,
      <<Word("remark"), LB, RB>>,
      <<Word("has been updated"), Word("see"), UrlTok(UrlAmendment), Word("published"),
        DateTok(<<"2025", "-", "08", "-", "01">>)>>,
      <<Word("no changes"), UrlTok(UrlUpd)>>,
      <<Word("no changes"), UrlTok(UrlUpd), DateTok(<<"2025", "-", "08", "-", "01">>)>>,
      <<Word("see"), UrlTok(UrlQuery)>>,
      <<Word("see"), UrlTok(UrlViewer)>>,
      <<Word("see"), UrlTok(UrlPage)>>,
      <<Word("has been updated"), DateTok(<<"2025", "-", "10", "-", "01">>)>>,
      <<Word("has been updated"), DateTok(<<"2025", "-", "08", "-", "01">>)>>,
      <<Word("no changes"), DateTok(<<"2025", "/", "10", "/", "01">>)>>,
      <<Word("no changes"), DateTok(<<"10", "/", "01", "/", "2025">>)>>,
      <<Word("no changes"), DateTok(<<"October", " ", "1", ", ", "2025">>)>>,
      <<Word("has been updated"), DateTok(<<"october", " ", "1", ", ", "2025">>)>>,
      <<Word("no changes"), DateTok(<<"2025", "-", "13", "-", "01">>)>>,
      <<Word("has been updated"), DateTok(<<"2025">>)>>,
      <<Word("has been updated")>>,
      <<Word("no changes")>> }

\* The verdicts that are sent in every wrapping.
WrappedHasUpdate == {PyTrue, PyFalse}
WrappedDates ==
    { DateText("2025", "-", "10", "01"), DateText("2025", "-", "08", "01"),
      PyStr(<<"October", " ", "1", ", ", "2025">>) }
WrappedUrls == {PyStr(UrlUpd), PyStr(UrlPage), PyNone}

\* Every verdict object alone, some of them in every wrapping, and the other answers.
Contents ==
    OtherAnswers
    \cup { Object("dq", hu, date, url) :
                hu \in HasUpdateValues, date \in DateValues, url \in UrlValues }
    \cup UNION { Wrappings(hu, date, url) :
                    hu \in WrappedHasUpdate, date \in WrappedDates, url \in WrappedUrls }

(***************************************************************************)
(* find_actual_pdf_url, from the service's answer on                       *)
(***************************************************************************)
\* What the second prompt-answering request can do: fail (HTTP error, timeout, a body
\* without choices), or answer with a text.
ServiceFailure == [ok |-> FALSE, text |-> <<>>]
Answer(text) == [ok |-> TRUE, text |-> text]
ResolverAnswers ==
    { ServiceFailure,
      Answer(<<Word("NOT_FOUND")>>),
      Answer(<<>>),
      Answer(<<UrlTok(UrlUpd)>>),
      Answer(<<UrlTok(UrlAlt)>>),
      Answer(<<UrlTok(UrlPage)>>),
      Answer(<<UrlTok(UrlUpper)>>),
      Answer(<<Word("The amendment is at"), UrlTok(UrlAlt), Word("on the site")>>) }

\* The first of re.findall(r'https?://[^\s<>"{}|\\^`\[\]]+\.pdf', pdf_url), when pdf_url is
\* not empty, not "NOT_FOUND", has ".pdf" (any case) and "http" in it; else None.  Every
\* exception is caught and gives None.
FirstPdfUrl(ok, pdf_url, hit) ==
    IF /\ ok
       /\ pdf_url # <<>>
       /\ pdf_url # <<Word("NOT_FOUND")>>
       /\ \E i \in 1..Len(pdf_url) : \E p \in 1..Len(pdf_url[i].j.v) :
             Lower(pdf_url[i].j.v[p]) = ".pdf"
       /\ \E i \in 1..Len(pdf_url) : IsUrlText(pdf_url[i].j)
       /\ hit # 0
    THEN PdfUrlMatch(pdf_url[hit].j, FALSE)
    ELSE PyNone
find_actual_pdf_url(answer) ==
    FirstPdfUrl(answer.ok, answer.text,
                FirstIndex(answer.text, LAMBDA tok : PdfUrlMatches(tok.j, FALSE), 1))

(***************************************************************************)
(* HTTP responses and files                                                *)
(***************************************************************************)
max_retries == 3
chunk_size == 8192
MAX_AMENDMENT_SIZE_MB == 15
BytesPerMB == 1024 * 1024

\* The body is written in at most MaxPieces steps: chunks of chunk_size, and the rest
\* of the chunks in the last step.
MaxPieces == 2

PdfMagic == <<"%", "P", "D", "F">>
HtmlHead == <<"<", "h", "t", "m">>

NoResponse ==
    [present |-> FALSE, url |-> PyNone, head |-> <<>>, size |-> 0, ctype |-> "", clen |-> ""]
Response(head, size, ctype, clen) ==
    [present |-> TRUE, url |-> PyNone, head |-> head, size |-> size, ctype |-> ctype,
     clen |-> clen]

\* What a server may answer with status 200: the first bytes of the body, its size, the
\* declared content-type, and whether the declared content-length is the size
\* ("actual"), another number ("wrong"), missing ("absent") or no number ("malformed").
Responses ==
    { Response(PdfMagic, 4, "application/pdf", "actual"),
      Response(PdfMagic, BytesPerMB, "application/pdf", "actual"),
      Response(PdfMagic, MAX_AMENDMENT_SIZE_MB * BytesPerMB, "application/pdf", "absent"),
      Response(PdfMagic, MAX_AMENDMENT_SIZE_MB * BytesPerMB + 1, "application/pdf", "wrong"),
      Response(PdfMagic, 40 * BytesPerMB, "application/pdf", "actual"),
      Response(HtmlHead, 2048, "text/html", "actual"),
      Response(HtmlHead, 2048, "application/pdf", "wrong"),
      Response(<<"%", "P", "D">>, 3, "application/pdf", "actual"),
      Response(<<>>, 0, "application/pdf", "absent"),
      Response(PdfMagic, BytesPerMB, "application/pdf", "malformed") }

NoFile == [exists |-> FALSE, head |-> <<>>, size |-> 0]
File(head, size) == [exists |-> TRUE, head |-> head, size |-> size]

\* f.read(4)
FirstBytes(file) == SubSeq(file.head, 1, IF Len(file.head) < 4 THEN Len(file.head) ELSE 4)

\* The file after the first n bytes of the body are written to it.
Written(resp, n) ==
    File(SubSeq(resp.head, 1, IF n < Len(resp.head) THEN n ELSE Len(resp.head)), n)

\* The bytes iter_content delivers in the step after `downloaded` bytes and `pieces` steps.
PieceSize(resp, downloaded, pieces) ==
    LET rest == resp.size - downloaded
    IN IF pieces + 1 >= MaxPieces \/ rest <= chunk_size THEN rest ELSE chunk_size

\* A test of the first three bytes only.
IsPdfSignature_3bytes(first_bytes) ==
    Len(first_bytes) >= 3 /\ SubSeq(first_bytes, 1, 3) = SubSeq(PdfMagic, 1, 3)
\* "if first_bytes != b'%PDF'"
IsPdfSignature(first_bytes) == first_bytes = PdfMagic

\* The comparison of whole megabytes, as with an integer division.
TooLarge_whole_mb(downloaded) == downloaded \div BytesPerMB > MAX_AMENDMENT_SIZE_MB
\* "if file_size_mb > MAX_AMENDMENT_SIZE_MB" with file_size_mb = downloaded / (1024 * 1024),
\* a float division that is exact for these sizes.
TooLarge(downloaded) == downloaded > MAX_AMENDMENT_SIZE_MB * BytesPerMB

\* The names of the temporary and of the final file.
TempPath == PyStr(<<"change_management/X_20251106_120000", ".tmp">>)
FinalPath == PyStr(<<"change_management/X_20251106_120000", ".pdf">>)

\* The exceptions of the model: an HTTPError with status 403 or with another status, any
\* other requests.exceptions.RequestException (connection error, timeout), and other
\* subclasses of Exception.
HttpErrors == {"HTTPError403", "HTTPError"}
RequestExceptions == HttpErrors \cup {"RequestException"}
Exceptions == RequestExceptions \cup {"OSError", "ValueError", "AttributeError", "Exception"}

\* The except clauses that end download_document (HTTPError, RequestException,
\* Exception): each logs and returns None.
OuterExceptReturnsNone(e) == e \in Exceptions

\* "except Exception as s3_error": the upload's exceptions are caught next to the upload.
UploadExceptCatches(e) == e \in Exceptions

\* A clause for the exceptions of requests only.
OrchestratorCatches_requests_only(e) == e \in RequestExceptions
\* "except Exception as e" around download_document in run_framework_update_check.
OrchestratorCatches(e) == e \in Exceptions

\* What download_document returns: None, the local path, or a dict with the local path
\* and what the storage service said.
ReturnNone ==
    [kind |-> "none", local_path |-> PyNone, s3_url |-> PyNone, s3_key |-> PyNone,
     stored_name |-> PyNone]
ReturnPath(filepath) ==
    [kind |-> "str", local_path |-> filepath, s3_url |-> PyNone, s3_key |-> PyNone,
     stored_name |-> PyNone]
ReturnDict(filepath) ==
    [kind |-> "dict", local_path |-> filepath, s3_url |-> PyStr(<<"https://", "s3/key">>),
     s3_key |-> PyStr(<<"key">>), stored_name |-> PyStr(<<"stored", ".pdf">>)]

\* processing_result: what process_downloaded_amendment returned, or the dict the
\* except clause builds.
ProcessingSucceeded == PyDict(<<"success", "True">>)
ProcessingFailed == PyDict(<<"success", "False">>)

\* The storage URL put in the place of the verdict's document_url.
WithStorage_replaces_url(r, downloaded_info) ==
    IF downloaded_info.kind = "dict"
    THEN DictPut(DictPut(r, "document_url", downloaded_info.s3_url),
                 "s3_key", downloaded_info.s3_key)
    ELSE r
\* "if downloaded_info and isinstance(downloaded_info, dict)": the storage fields.
WithStorage(r, downloaded_info) ==
    IF downloaded_info.kind = "dict"
    THEN DictPut(DictPut(DictPut(r, "s3_url", downloaded_info.s3_url),
                         "s3_key", downloaded_info.s3_key),
                 "s3_stored_name", downloaded_info.stored_name)
    ELSE r

\* "if processing_result: result['processing_result'] = processing_result"
WithProcessing(r, processing_result) ==
    IF Truthy(processing_result) THEN DictPut(r, "processing_result", processing_result)
    ELSE r

\* The record run_framework_update_check returns.
ResultRecord(update_info, downloaded_path, downloaded_info, processing_result) ==
    WithProcessing(
        WithStorage(DictPut(update_info, "downloaded_path", downloaded_path), downloaded_info),
        processing_result)

(***************************************************************************)
(* State                                                                   *)
(***************************************************************************)
VARIABLES
    entry,              \* the function called
    content,            \* the text the prompt-answering service answers with
    last_updated_date,  \* the baseline
    api_key,            \* an API key is given
    pc,                 \* where the call is
    extracted,          \* the tier that produced parsed, and parsed, before validation
    update_info,        \* what query_perplexity_api returned
    document_url,       \* download_document's argument
    url_to_fetch,
    retry_count,
    exc,                \* the exception in flight
    response,
    n_resolver,         \* find_actual_pdf_url calls of this invocation
    n_http,             \* HTTP GET requests of this invocation
    attempt,            \* the _attempt_download calls so far, and what the requests of
                        \* the last one were answered with
    alternate_url,      \* what find_actual_pdf_url returned after the last 403
    sleeps,             \* the time.sleep calls, in order
    files,              \* the temporary and the final file
    downloaded,         \* bytes written
    pieces,             \* steps of the streaming loop taken
    checked,            \* the outcomes of the validations of the body, in order
    download_result,    \* what download_document returned
    downloaded_path,
    downloaded_info,
    processing,         \* process_amendment, framework_id and processing_result
    result,             \* the record the called function returned
    raised,             \* the exception that left the called function
    calls,              \* two concurrent calls of download_document: where each is,
                        \* its file names, its handle and what it returned
    disk,               \* the download directory they share
    history             \* what the earlier invocations with these arguments returned
                        \* or raised, in order

inputs == <<entry, content, last_updated_date, api_key>>
verdict_vars == <<extracted, update_info>>
fetch_vars ==
    <<url_to_fetch, retry_count, response, n_resolver, n_http, attempt, alternate_url, sleeps>>
file_vars == <<files, downloaded, pieces, checked>>
orch_vars == <<downloaded_path, downloaded_info, processing, result>>
call_vars == <<calls, disk, history>>
vars == <<inputs, pc, verdict_vars, document_url, fetch_vars, exc, file_vars,
          download_result, orch_vars, raised, call_vars>>

NotExtracted == [tier |-> "", parsed |-> NoParse]
NoProcessing == [process_amendment |-> FALSE, framework_id |-> PyNone, ran |-> FALSE,
                 processing_result |-> PyNone]
NoFiles == [tmp |-> NoFile, pdf |-> NoFile]
NoAttempt == [n |-> 0, requests |-> <<>>]
Pending ==
    [kind |-> "pending", local_path |-> PyNone, s3_url |-> PyNone, s3_key |-> PyNone,
     stored_name |-> PyNone]

\* A directory without files: the file each name is linked to, and what each file holds.
EmptyDisk == [at |-> <<>>, data |-> <<>>]

\* The state before the call, but for the arguments.
Fresh ==
    /\ history = <<>>
    /\ extracted = NotExtracted
    /\ update_info = <<>>
    /\ url_to_fetch = PyNone
    /\ retry_count = 0
    /\ exc = ""
    /\ response = NoResponse
    /\ n_resolver = 0
    /\ n_http = 0
    /\ attempt = NoAttempt
    /\ alternate_url = PyNone
    /\ sleeps = <<>>
    /\ files = NoFiles
    /\ downloaded = 0
    /\ pieces = 0
    /\ checked = <<>>
    /\ download_result = Pending
    /\ downloaded_path = PyNone
    /\ downloaded_info = Pending
    /\ processing = NoProcessing
    /\ result = <<>>
    /\ raised = ""
    /\ disk = EmptyDisk

\* The answers run_framework_update_check is run on.
OrchestratorContents ==
    { Object("dq", PyTrue, DateText("2025", "-", "10", "01"), PyStr(UrlUpd)),
      Object("dq", PyTrue, DateText("2025", "-", "08", "01"), PyStr(UrlPage)),
      Object("dq", PyFalse, DateText("2025", "-", "10", "01"), PyStr(UrlUpd)),
      Object("dq", PyTrue, DateText("2025", "-", "10", "01"), PyNone),
      Object("dq", PyTrue, DateText("2025", "-", "08", "01"), Absent),
      Object("dq", PyTrue, DateText("2025", "-", "10", "01"), PyStr(<<>>)),
      <<Word("has been updated"), Word("see"), UrlTok(UrlAmendment), Word("published"),
        DateTok(<<"2025", "-", "08", "-", "01">>)>>,
      <<LB>> \o Members("dq", PyTrue, DateText("2025", "-", "10", "01"), PyStr(UrlUpd))
           \o <<Mem("s3_url", PyStr(<<"https://", "s3/old">>)), RB>>,
      <<Val(PyList(<<"1">>))>>,
      <<Word("no changes")>> }

\* The URLs download_document is called with directly.
DirectUrls == {PyStr(UrlUpd), PyStr(UrlUpper), PyStr(UrlPage), PyStr(UrlQuery), PyStr(<<>>),
                   PyNone}

\* A call of run_framework_update_check, or of download_document alone.
Init ==
    /\ Fresh
    /\ calls = <<>>
    /\ \/ /\ entry = "run_framework_update_check"
          /\ content \in OrchestratorContents
          /\ last_updated_date \in Baselines
          /\ api_key \in BOOLEAN
          /\ document_url = PyNone
          /\ pc = "query"
       \/ /\ entry = "download_document"
          /\ content = <<>>
          /\ last_updated_date = PyNone
          /\ api_key \in BOOLEAN
          /\ document_url \in DirectUrls
          /\ pc = "dd_start"

\* A call of query_perplexity_api alone.
InitExtract ==
    /\ Fresh
    /\ calls = <<>>
    /\ entry = "query_perplexity_api"
    /\ content \in Contents
    /\ last_updated_date \in Baselines
    /\ api_key \in BOOLEAN
    /\ document_url = PyNone
    /\ pc = "query"

(***************************************************************************)
(* query_perplexity_api                                                    *)
(***************************************************************************)
\* "if not api_key: raise ValueError"
QueryWithoutKey ==
    /\ pc = "query"
    /\ ~api_key
    /\ raised' = "ValueError"
    /\ pc' = "raised"
    /\ UNCHANGED <<inputs, call_vars, verdict_vars, document_url, fetch_vars, exc, file_vars,
                   download_result, orch_vars>>

\* A service failure that is caught and answered with the neutral verdict.
QueryServiceFails_recovered ==
    /\ pc = "query"
    /\ api_key
    /\ update_info' = NeutralVerdict(last_updated_date)
    /\ raised' = "none"
    /\ IF entry = "query_perplexity_api"
       THEN pc' = "done" /\ result' = NeutralVerdict(last_updated_date)
       ELSE pc' = "decide" /\ UNCHANGED result
    /\ UNCHANGED <<inputs, call_vars, extracted, document_url, fetch_vars, exc, file_vars,
                   download_result, downloaded_path, downloaded_info, processing>>
\* requests.post fails or times out, raise_for_status raises, or the body lacks
\* choices[0].message.content: nothing catches it.
QueryServiceFails ==
    /\ pc = "query"
    /\ api_key
    /\ \E e \in {"HTTPError", "RequestException", "KeyError"} : raised' = e
    /\ pc' = "raised"
    /\ UNCHANGED <<inputs, call_vars, verdict_vars, document_url, fetch_vars, exc, file_vars,
                   download_result, orch_vars>>

\* What this invocation returned or raised.
Outcome == [raised |-> raised, verdict |-> IF pc = "done" THEN result ELSE <<>>]

\* The baseline of an extractor that keeps the date of the verdict it returned last.
Remembered ==
    IF history # <<>> /\ history[Len(history)].raised = "none"
                      /\ Get(history[Len(history)].verdict, "latest_update_date").ty = "str"
    THEN Get(history[Len(history)].verdict, "latest_update_date")
    ELSE last_updated_date

\* The extraction with the baseline taken from the earlier invocation.
QueryAnswered_remembers ==
    /\ pc = "query"
    /\ api_key
    /\ \E r \in {query_perplexity_api(content, Remembered)} :
          /\ extracted' = r.extracted
          /\ IF r.raised # "none"
             THEN /\ raised' = r.raised
                  /\ pc' = "raised"
                  /\ UNCHANGED <<update_info, result>>
             ELSE /\ update_info' = r.verdict
                  /\ raised' = "none"
                  /\ IF entry = "query_perplexity_api"
                     THEN pc' = "done" /\ result' = r.verdict
                     ELSE pc' = "decide" /\ UNCHANGED result
    /\ UNCHANGED <<inputs, call_vars, document_url, fetch_vars, exc, file_vars, download_result,
                   downloaded_path, downloaded_info, processing>>

\* The service answers with content: extraction, validation, return or raise.
QueryAnswered ==
    /\ pc = "query"
    /\ api_key
    /\ \E r \in {query_perplexity_api(content, last_updated_date)} :
          /\ extracted' = r.extracted
          /\ IF r.raised # "none"
             THEN /\ raised' = r.raised
                  /\ pc' = "raised"
                  /\ UNCHANGED <<update_info, result>>
             ELSE /\ update_info' = r.verdict
                  /\ raised' = "none"
                  /\ IF entry = "query_perplexity_api"
                     THEN pc' = "done" /\ result' = r.verdict
                     ELSE pc' = "decide" /\ UNCHANGED result
    /\ UNCHANGED <<inputs, call_vars, document_url, fetch_vars, exc, file_vars, download_result,
                   downloaded_path, downloaded_info, processing>>

NextExtract == QueryWithoutKey \/ QueryServiceFails \/ QueryAnswered

SpecExtract == InitExtract /\ [][NextExtract]_vars

(***************************************************************************)
(* _clean_response_content alone                                           *)
(***************************************************************************)
\* The texts are the sequences of at most MaxTextLen of these tokens.
MaxTextLen == 4
TextTokens == {Space, FenceJson, Fence, LB, RB, Word("x")}
Texts == UNION { [1..n -> TextTokens] : n \in 0..MaxTextLen }

InitClean ==
    /\ Fresh
    /\ calls = <<>>
    /\ entry = "_clean_response_content"
    /\ content \in Texts
    /\ last_updated_date = PyNone
    /\ api_key = FALSE
    /\ document_url = PyNone
    /\ pc = "clean"

\* The whole function: it has no statement that raises on a str, and returns a str.
Clean ==
    /\ pc = "clean"
    /\ result' = _clean_response_content(content)
    /\ pc' = "done"
    /\ UNCHANGED <<inputs, call_vars, verdict_vars, document_url, fetch_vars, exc, file_vars,
                   download_result, downloaded_path, downloaded_info, processing, raised>>

SpecClean == InitClean /\ [][Clean]_vars

(***************************************************************************)
(* query_perplexity_api invoked again on the same answer                   *)
(***************************************************************************)
\* Invocations of one run of the model.
MaxRuns == 3

\* The caller invokes the function again with the arguments it had; the service
\* gives the same text.  What the earlier invocation left in the process is still
\* there: the function has no module state, and its locals are gone.
QueryAgain ==
    /\ entry = "query_perplexity_api"
    /\ pc \in {"done", "raised"}
    /\ api_key
    /\ Len(history) < MaxRuns - 1
    /\ history' = Append(history, Outcome)
    /\ pc' = "query"
    /\ UNCHANGED <<inputs, calls, disk, verdict_vars, document_url, fetch_vars, exc,
                   file_vars, download_result, orch_vars, raised>>

\* The first invocation has the key: without it nothing is extracted.
InitAgain == InitExtract /\ api_key = TRUE

NextAgain == QueryAnswered \/ QueryAgain

SpecAgain == InitAgain /\ [][NextAgain]_vars

(***************************************************************************)
(* download_document                                                       *)
(***************************************************************************)
\* download_document returns value.
ReturnPc == IF entry = "download_document" THEN "done" ELSE "after_download"
DdReturn(value) ==
    /\ download_result' = value
    /\ pc' = ReturnPc
    /\ UNCHANGED <<exc, raised>>

\* An except clause catches e and returns value.
DdReturnFrom(e, value) ==
    /\ download_result' = value
    /\ pc' = ReturnPc
    /\ exc' = e
    /\ UNCHANGED raised

\* The exception e leaves download_document.
DdEscape(e) ==
    /\ UNCHANGED download_result
    /\ IF entry = "download_document"
       THEN pc' = "raised" /\ raised' = e /\ UNCHANGED exc
       ELSE pc' = "orch_except" /\ exc' = e /\ UNCHANGED raised

\* The exception e is raised inside the try block that spans lines 604 to 778.
DdCaught(e) == IF OuterExceptReturnsNone(e) THEN DdReturnFrom(e, ReturnNone) ELSE DdEscape(e)

\* "if not document_url: return None"
DdNoUrl ==
    /\ pc = "dd_start"
    /\ ~Truthy(document_url)
    /\ DdReturn(ReturnNone)
    /\ UNCHANGED <<inputs, call_vars, verdict_vars, document_url, fetch_vars, file_vars, orch_vars>>

\* os.makedirs(download_dir, exist_ok=True)
DdMakedirs ==
    /\ pc = "dd_start"
    /\ Truthy(document_url)
    /\ pc' = "dd_validate"
    /\ UNCHANGED <<inputs, call_vars, verdict_vars, document_url, fetch_vars, exc, file_vars,
                   download_result, orch_vars, raised>>

\* os.makedirs fails: it is called before the try block.
DdMakedirsFails ==
    /\ pc = "dd_start"
    /\ Truthy(document_url)
    /\ DdEscape("OSError")
    /\ UNCHANGED <<inputs, call_vars, verdict_vars, document_url, fetch_vars, file_vars, orch_vars>>

\* "if not document_url.lower().endswith('.pdf')" is false.
DdUrlIsPdf ==
    /\ pc = "dd_validate"
    /\ EndsWithPdf(document_url)
    /\ url_to_fetch' = document_url
    /\ pc' = "dd_loop"
    /\ UNCHANGED <<inputs, call_vars, verdict_vars, document_url, retry_count, response, n_resolver,
                   n_http, attempt, alternate_url, sleeps, exc, file_vars, download_result,
                   orch_vars, raised>>

\* "direct_pdf_url and direct_pdf_url.lower().endswith('.pdf')
\*  and direct_pdf_url != 'NOT_FOUND'"
IsDirectPdfUrl(direct_pdf_url) == Truthy(direct_pdf_url) /\ EndsWithPdf(direct_pdf_url)

\* The URL is no .pdf link and there is an API key: the resolver is asked.
DdResolve ==
    /\ pc = "dd_validate"
    /\ ~EndsWithPdf(document_url)
    /\ api_key
    /\ n_resolver' = n_resolver + 1
    /\ \E answer \in ResolverAnswers :
          IF IsDirectPdfUrl(find_actual_pdf_url(answer))
          THEN /\ url_to_fetch' = find_actual_pdf_url(answer)
               /\ pc' = "dd_loop"
               /\ UNCHANGED <<download_result, exc, raised>>
          ELSE /\ url_to_fetch' = document_url
               /\ DdReturn(ReturnNone)
    /\ UNCHANGED <<inputs, call_vars, verdict_vars, document_url, retry_count, response, n_http,
                   attempt, alternate_url, sleeps, file_vars, orch_vars>>

\* The URL is no .pdf link and there is no API key.
DdNoKey ==
    /\ pc = "dd_validate"
    /\ ~EndsWithPdf(document_url)
    /\ ~api_key
    /\ url_to_fetch' = document_url
    /\ DdReturn(ReturnNone)
    /\ UNCHANGED <<inputs, call_vars, verdict_vars, document_url, retry_count, response, n_resolver,
                   n_http, attempt, alternate_url, sleeps, file_vars, orch_vars>>

\* "while retry_count < max_retries and response is None"
DdLoopHead ==
    /\ pc = "dd_loop"
    /\ pc' = IF retry_count < max_retries /\ ~response.present
             THEN "dd_attempt" ELSE "dd_after_loop"
    /\ UNCHANGED <<inputs, call_vars, verdict_vars, document_url, fetch_vars, exc, file_vars,
                   download_result, orch_vars, raised>>

\* "'/'.join(url.split('/')[:3]) + '/'": the scheme and the host of the URL.
Referer(url) == PyStr(<<url.v[1], url.v[2], "/">>)

\* The headers of the session, and those of the second request.
default_headers == [UserAgent |-> "Windows NT 10.0", Referer |-> PyNone]
alt_headers(url) == [UserAgent |-> "Macintosh", Referer |-> Referer(url)]

\* session.get(url, ...) with these headers, and what came of it: "200" or the
\* exception raised by it or by raise_for_status.
session_get(url, headers, answer) == [url |-> url, headers |-> headers, answer |-> answer]

\* "except: raise e": the first error is raised, not the one of the second request.
Reraised_second(first, second) == second
Reraised(first, second) == first

\* One more call of _attempt_download(url_to_fetch): its first request, and its request
\* with the alternative headers when there was one (second # "").
Attempted(first, second) ==
    [n |-> attempt.n + 1,
     requests |-> <<session_get(url_to_fetch, default_headers, first)>>
                  \o (IF second = "" THEN <<>>
                      ELSE <<session_get(url_to_fetch, alt_headers(url_to_fetch), second)>>)]

\* The response to a request for url_to_fetch.
From(resp, url) == [resp EXCEPT !.url = url]

\* _attempt_download: the first request is answered with status 200; "break".
AttemptOk ==
    /\ pc = "dd_attempt"
    /\ \E resp \in Responses : response' = From(resp, url_to_fetch)
    /\ n_http' = n_http + 1
    /\ attempt' = Attempted("200", "")
    /\ pc' = "dd_after_loop"
    /\ UNCHANGED <<inputs, call_vars, verdict_vars, document_url, url_to_fetch, retry_count,
                   n_resolver, alternate_url, sleeps, exc, file_vars, download_result,
                   orch_vars, raised>>

\* _attempt_download: the first request is answered 403 and the request with the
\* alternative headers with status 200.
Attempt403ThenOk ==
    /\ pc = "dd_attempt"
    /\ \E resp \in Responses : response' = From(resp, url_to_fetch)
    /\ n_http' = n_http + 2
    /\ attempt' = Attempted("HTTPError403", "200")
    /\ pc' = "dd_after_loop"
    /\ UNCHANGED <<inputs, call_vars, verdict_vars, document_url, url_to_fetch, retry_count,
                   n_resolver, alternate_url, sleeps, exc, file_vars, download_result,
                   orch_vars, raised>>

\* _attempt_download: the first request is answered 403 and the request with the
\* alternative headers fails: "except: raise e", the first error.
Attempt403ThenFails ==
    /\ pc = "dd_attempt"
    /\ n_http' = n_http + 2
    /\ \E second \in Exceptions \ {"OSError", "ValueError", "AttributeError"} :
          /\ attempt' = Attempted("HTTPError403", second)
          /\ exc' = Reraised("HTTPError403", second)
    /\ pc' = "dd_except"
    /\ UNCHANGED <<inputs, call_vars, verdict_vars, document_url, url_to_fetch, retry_count, response,
                   n_resolver, alternate_url, sleeps, file_vars, download_result, orch_vars,
                   raised>>

\* _attempt_download: the first request fails otherwise: another error status, a
\* connection error or timeout, or an exception that is no RequestException.
AttemptFails ==
    /\ pc = "dd_attempt"
    /\ n_http' = n_http + 1
    /\ \E e \in {"HTTPError", "RequestException", "Exception"} :
          exc' = e /\ attempt' = Attempted(e, "")
    /\ pc' = "dd_except"
    /\ UNCHANGED <<inputs, call_vars, verdict_vars, document_url, url_to_fetch, retry_count, response,
                   n_resolver, alternate_url, sleeps, file_vars, download_result, orch_vars,
                   raised>>

\* "if status_code == 403 and api_key and retry_count < max_retries - 1"
AsksForAlternate_no_budget == exc = "HTTPError403" /\ api_key
AsksForAlternate_first_only == exc = "HTTPError403" /\ api_key /\ retry_count < 1
AsksForAlternate == exc = "HTTPError403" /\ api_key /\ retry_count < max_retries - 1

\* "alternate_url and alternate_url.lower().endswith('.pdf')
\*  and alternate_url != url_to_fetch"
IsAlternate(found, current) == Truthy(found) /\ EndsWithPdf(found) /\ found # current

\* except HTTPError, status 403 with a key and attempts left: the resolver is asked for
\* another URL; with one, "continue"; without, time.sleep(2) and "continue".
Handle403 ==
    /\ pc = "dd_except"
    /\ AsksForAlternate
    /\ n_resolver' = n_resolver + 1
    /\ \E answer \in ResolverAnswers : alternate_url' = find_actual_pdf_url(answer)
    /\ IF IsAlternate(alternate_url', url_to_fetch)
       THEN url_to_fetch' = alternate_url' /\ UNCHANGED sleeps
       ELSE UNCHANGED url_to_fetch /\ sleeps' = Append(sleeps, 2)
    /\ retry_count' = retry_count + 1
    /\ pc' = "dd_loop"
    /\ UNCHANGED <<inputs, call_vars, verdict_vars, document_url, response, n_http, attempt, exc,
                   file_vars, download_result, orch_vars, raised>>

\* "if retry_count >= max_retries - 1: raise", else "retry_count += 1" and `wait`
\* seconds of sleep (0: none).
RaiseOrRetry_at_once(wait) == DdCaught(exc) /\ UNCHANGED <<retry_count, sleeps>>
\* Handlers that count the failure and go round again, whatever the count.
RaiseOrRetry_never_raises(wait) ==
    /\ retry_count' = retry_count + 1
    /\ sleeps' = IF wait = 0 THEN sleeps ELSE Append(sleeps, wait)
    /\ pc' = "dd_loop"
    /\ UNCHANGED <<download_result, exc, raised>>
RaiseOrRetry(wait) ==
    IF retry_count >= max_retries - 1
    THEN DdCaught(exc) /\ UNCHANGED <<retry_count, sleeps>>
    ELSE /\ retry_count' = retry_count + 1
         /\ sleeps' = IF wait = 0 THEN sleeps ELSE Append(sleeps, wait)
         /\ pc' = "dd_loop"
         /\ UNCHANGED <<download_result, exc, raised>>

\* except HTTPError, when the resolver is not asked.
HandleHttpError ==
    /\ pc = "dd_except"
    /\ exc \in HttpErrors
    /\ ~AsksForAlternate
    /\ RaiseOrRetry(0)
    /\ UNCHANGED <<inputs, call_vars, verdict_vars, document_url, url_to_fetch, response, n_resolver,
                   n_http, attempt, alternate_url, file_vars, orch_vars>>

\* except RequestException: "retry_count += 1; time.sleep(2 ** retry_count)"
HandleRequestException ==
    /\ pc = "dd_except"
    /\ exc \in RequestExceptions \ HttpErrors
    /\ RaiseOrRetry(2 ^ (retry_count + 1))
    /\ UNCHANGED <<inputs, call_vars, verdict_vars, document_url, url_to_fetch, response, n_resolver,
                   n_http, attempt, alternate_url, file_vars, orch_vars>>

\* except Exception: "retry_count += 1; time.sleep(2)"
HandleException ==
    /\ pc = "dd_except"
    /\ exc \in Exceptions \ RequestExceptions
    /\ RaiseOrRetry(2)
    /\ UNCHANGED <<inputs, call_vars, verdict_vars, document_url, url_to_fetch, response, n_resolver,
                   n_http, attempt, alternate_url, file_vars, orch_vars>>

\* Lines 678 to 693: response.headers on a missing response raises AttributeError, int()
\* of a content-length that is no number raises ValueError; then the temporary file is
\* opened for writing.
DdAfterLoop ==
    /\ pc = "dd_after_loop"
    /\ IF ~response.present THEN DdCaught("AttributeError") /\ UNCHANGED file_vars
       ELSE IF response.clen = "malformed" THEN DdCaught("ValueError") /\ UNCHANGED file_vars
       ELSE /\ files' = [files EXCEPT !.tmp = File(<<>>, 0)]
            /\ downloaded' = 0
            /\ pc' = "dd_stream"
            /\ UNCHANGED <<pieces, checked, download_result, exc, raised>>
    /\ UNCHANGED <<inputs, call_vars, verdict_vars, document_url, fetch_vars, orch_vars>>

\* open(temp_filepath, 'wb') fails.
DdOpenFails ==
    /\ pc = "dd_after_loop"
    /\ response.present
    /\ response.clen # "malformed"
    /\ DdCaught("OSError")
    /\ UNCHANGED <<inputs, call_vars, verdict_vars, document_url, fetch_vars, file_vars, orch_vars>>

\* "for chunk in response.iter_content(...): f.write(chunk); downloaded += len(chunk)"
StreamChunk ==
    /\ pc = "dd_stream"
    /\ downloaded < response.size
    /\ downloaded' = downloaded + PieceSize(response, downloaded, pieces)
    /\ files' = [files EXCEPT !.tmp = Written(response, downloaded')]
    /\ pieces' = pieces + 1
    /\ UNCHANGED <<inputs, call_vars, pc, verdict_vars, document_url, fetch_vars, exc, checked,
                   download_result, orch_vars, raised>>

\* iter_content raises (the connection breaks), or f.write does: the with statement
\* closes the file and the exception reaches the outer except clauses.
StreamFails ==
    /\ pc = "dd_stream"
    /\ downloaded < response.size
    /\ \E e \in {"RequestException", "OSError"} : DdCaught(e)
    /\ UNCHANGED <<inputs, call_vars, verdict_vars, document_url, fetch_vars, file_vars, orch_vars>>

\* The body is exhausted.
StreamEnd ==
    /\ pc = "dd_stream"
    /\ downloaded = response.size
    /\ pc' = "dd_magic"
    /\ UNCHANGED <<inputs, call_vars, verdict_vars, document_url, fetch_vars, exc, file_vars,
                   download_result, orch_vars, raised>>

\* os.remove(temp_filepath)
Removed(fs) == [fs EXCEPT !.tmp = NoFile]

\* A body that is no PDF is removed and the URL is requested again.
MagicCheck_retries ==
    /\ pc = "dd_magic"
    /\ IF IsPdfSignature(FirstBytes(files.tmp))
       THEN /\ checked' = Append(checked, "magic_ok")
            /\ pc' = "dd_size"
            /\ UNCHANGED <<files, fetch_vars>>
       ELSE /\ checked' = Append(checked, "not_pdf")
            /\ files' = Removed(files)
            /\ retry_count' = retry_count + 1
            /\ response' = NoResponse
            /\ pc' = "dd_loop"
            /\ UNCHANGED <<url_to_fetch, n_resolver, n_http, attempt, alternate_url, sleeps>>
    /\ UNCHANGED <<inputs, call_vars, verdict_vars, document_url, downloaded, pieces, orch_vars,
                   download_result, exc, raised>>
\* "first_bytes = f.read(4); if first_bytes != b'%PDF': os.remove; return None"
MagicCheck ==
    /\ pc = "dd_magic"
    /\ IF IsPdfSignature(FirstBytes(files.tmp))
       THEN /\ checked' = Append(checked, "magic_ok")
            /\ pc' = "dd_size"
            /\ UNCHANGED <<files, download_result, exc, raised>>
       ELSE /\ checked' = Append(checked, "not_pdf")
            /\ files' = Removed(files)
            /\ DdReturn(ReturnNone)
    /\ UNCHANGED <<inputs, call_vars, verdict_vars, document_url, fetch_vars, downloaded, pieces,
                   orch_vars>>

\* Reading the temporary file raises: "except Exception: os.remove; return None"
MagicReadFails ==
    /\ pc = "dd_magic"
    /\ checked' = Append(checked, "unreadable")
    /\ files' = Removed(files)
    /\ DdReturnFrom("OSError", ReturnNone)
    /\ UNCHANGED <<inputs, call_vars, verdict_vars, document_url, fetch_vars, downloaded, pieces,
                   orch_vars>>

\* The size check left out: the file goes on to be renamed.
SizeCheck_skipped ==
    /\ pc = "dd_size"
    /\ pc' = "dd_rename"
    /\ UNCHANGED <<inputs, call_vars, verdict_vars, document_url, fetch_vars, exc, file_vars,
                   download_result, orch_vars, raised>>
\* "if file_size_mb > MAX_AMENDMENT_SIZE_MB: os.remove; return None"
SizeCheck ==
    /\ pc = "dd_size"
    /\ IF TooLarge(downloaded)
       THEN /\ checked' = Append(checked, "too_large")
            /\ files' = Removed(files)
            /\ DdReturn(ReturnNone)
       ELSE /\ checked' = Append(checked, "size_ok")
            /\ pc' = "dd_rename"
            /\ UNCHANGED <<files, download_result, exc, raised>>
    /\ UNCHANGED <<inputs, call_vars, verdict_vars, document_url, fetch_vars, downloaded, pieces,
                   orch_vars>>

\* os.rename(temp_filepath, filepath)
Rename ==
    /\ pc = "dd_rename"
    /\ files' = [tmp |-> NoFile, pdf |-> files.tmp]
    /\ pc' = "dd_upload"
    /\ UNCHANGED <<inputs, call_vars, verdict_vars, document_url, fetch_vars, exc, downloaded, pieces,
                   checked, download_result, orch_vars, raised>>

\* os.rename raises OSError.
RenameFails ==
    /\ pc = "dd_rename"
    /\ DdCaught("OSError")
    /\ UNCHANGED <<inputs, call_vars, verdict_vars, document_url, fetch_vars, file_vars, orch_vars>>

\* s3_client.upload returns: with success the dict, without the local path.
Upload ==
    /\ pc = "dd_upload"
    /\ \E success \in BOOLEAN :
          DdReturn(IF success THEN ReturnDict(FinalPath) ELSE ReturnPath(FinalPath))
    /\ UNCHANGED <<inputs, call_vars, verdict_vars, document_url, fetch_vars, file_vars, orch_vars>>

\* The import, create_direct_mysql_client, upload or the reading of its result raises:
\* "except Exception as s3_error: return filepath"
UploadRaises ==
    /\ pc = "dd_upload"
    /\ \E e \in {"Exception"} :
          IF UploadExceptCatches(e) THEN DdReturnFrom(e, ReturnPath(FinalPath))
          ELSE DdCaught(e)
    /\ UNCHANGED <<inputs, call_vars, verdict_vars, document_url, fetch_vars, file_vars, orch_vars>>

download_document ==
    \/ DdNoUrl \/ DdMakedirs \/ DdMakedirsFails
    \/ DdUrlIsPdf \/ DdResolve \/ DdNoKey
    \/ DdLoopHead
    \/ AttemptOk \/ Attempt403ThenOk \/ Attempt403ThenFails \/ AttemptFails
    \/ Handle403 \/ HandleHttpError \/ HandleRequestException \/ HandleException
    \/ DdAfterLoop \/ DdOpenFails
    \/ StreamChunk \/ StreamFails \/ StreamEnd
    \/ MagicCheck \/ MagicReadFails
    \/ SizeCheck
    \/ Rename \/ RenameFails
    \/ Upload \/ UploadRaises

(***************************************************************************)
(* run_framework_update_check                                              *)
(***************************************************************************)
\* The test of document_url alone.
ShouldDownload_url_only(d) == Truthy(Get(d, "document_url"))
\* "if update_info.get('has_update') and update_info.get('document_url')"
ShouldDownload(d) == Truthy(Get(d, "has_update")) /\ Truthy(Get(d, "document_url"))

Decide ==
    /\ pc = "decide"
    /\ IF ShouldDownload(update_info)
       THEN document_url' = update_info["document_url"] /\ pc' = "dd_start"
       ELSE UNCHANGED document_url /\ pc' = "assemble"
    /\ UNCHANGED <<inputs, call_vars, verdict_vars, fetch_vars, exc, file_vars, download_result,
                   orch_vars, raised>>

\* "except Exception as e: downloaded_path = None"
OrchestratorExcept ==
    /\ pc = "orch_except"
    /\ IF OrchestratorCatches(exc)
       THEN downloaded_path' = PyNone /\ pc' = "assemble" /\ UNCHANGED raised
       ELSE UNCHANGED downloaded_path /\ pc' = "raised" /\ raised' = exc
    /\ UNCHANGED <<inputs, call_vars, verdict_vars, document_url, fetch_vars, exc, file_vars,
                   download_result, downloaded_info, processing, result>>

FrameworkIds == {PyNone, PyNum("7")}

\* "process_amendment and framework_id and downloaded_path
\*  and downloaded_path.lower().endswith('.pdf')"
ShouldProcess_without_id(process_amendment, framework_id, path) ==
    process_amendment /\ Truthy(path) /\ EndsWithPdf(path)
ShouldProcess(process_amendment, framework_id, path) ==
    process_amendment /\ Truthy(framework_id) /\ Truthy(path) /\ EndsWithPdf(path)

\* Lines 856 to 868 and 898: what download_document returned is taken apart.  The
\* arguments process_amendment and framework_id are read here for the first time.
AfterDownload ==
    /\ pc = "after_download"
    /\ IF download_result.kind = "none"
       THEN pc' = "assemble" /\ UNCHANGED <<downloaded_path, downloaded_info, processing>>
       ELSE /\ downloaded_path' = download_result.local_path
            /\ downloaded_info' = IF download_result.kind = "dict" THEN download_result
                                  ELSE downloaded_info
            /\ \E process_amendment \in BOOLEAN, framework_id \in FrameworkIds :
                  /\ processing' = [processing EXCEPT
                                        !.process_amendment = process_amendment,
                                        !.framework_id = framework_id]
                  /\ pc' = IF ShouldProcess(process_amendment, framework_id,
                                            download_result.local_path)
                           THEN "process" ELSE "assemble"
    /\ UNCHANGED <<inputs, call_vars, verdict_vars, document_url, fetch_vars, exc, file_vars,
                   download_result, result, raised>>

\* process_downloaded_amendment returns its result, or raises and the except clause
\* builds {'success': False, 'error': ...}.
Process ==
    /\ pc = "process"
    /\ \E outcome \in {ProcessingSucceeded, ProcessingFailed} :
          processing' = [processing EXCEPT !.ran = TRUE, !.processing_result = outcome]
    /\ pc' = "assemble"
    /\ UNCHANGED <<inputs, call_vars, verdict_vars, document_url, fetch_vars, exc, file_vars,
                   download_result, downloaded_path, downloaded_info, result, raised>>

\* Lines 912 to 926.
Assemble ==
    /\ pc = "assemble"
    /\ result' = ResultRecord(update_info, downloaded_path, downloaded_info,
                              processing.processing_result)
    /\ pc' = "done"
    /\ UNCHANGED <<inputs, call_vars, verdict_vars, document_url, fetch_vars, exc, file_vars,
                   download_result, downloaded_path, downloaded_info, processing, raised>>

run_framework_update_check ==
    \/ QueryWithoutKey \/ QueryServiceFails \/ QueryAnswered
    \/ Decide \/ OrchestratorExcept \/ AfterDownload \/ Process \/ Assemble

Next == run_framework_update_check \/ download_document

Spec == Init /\ [][Next]_vars

\* Every step of the program is eventually taken: the calls are sequential code, and a
\* request, a sleep or a file operation returns or raises.
FairSpec == Spec /\ WF_vars(Next)

(***************************************************************************)
(* Two concurrent calls of download_document, from the response on         *)
(***************************************************************************)
Callers == {1, 2}
FrameworkNames == {<<"ISO", " ", "27001">>, <<"ISO", "_", "27001">>, <<"NIST">>}
Seconds == {"120000", "120001"}
Bodies ==
    { [head |-> PdfMagic, size |-> 4], [head |-> HtmlHead, size |-> 4],
      [head |-> PdfMagic, size |-> 40 * BytesPerMB] }

\* framework_name.replace(' ', '_').replace('/', '_').replace('\\', '_')
safe_name(framework_name) ==
    [i \in DOMAIN framework_name |->
        IF framework_name[i] \in {" ", "/", "\\"} THEN "_" ELSE framework_name[i]]

\* f"{safe_name}_{timestamp}.tmp" and f"{safe_name}_{timestamp}.pdf" in download_dir
temp_filepath(c) == <<safe_name(c.framework_name), c.timestamp, ".tmp">>
filepath(c) == <<safe_name(c.framework_name), c.timestamp, ".pdf">>

Exists(path) == path \in DOMAIN disk.at
Linked(d, path, ino) == [p \in DOMAIN d \cup {path} |-> IF p = path THEN ino ELSE d[p]]
Unlinked(d, path) == [p \in DOMAIN d \ {path} |-> d[p]]
NoData == [head |-> <<>>, size |-> 0, writers |-> {}]

InitPair ==
    /\ Fresh
    /\ entry = "download_document"
    /\ content = <<>>
    /\ last_updated_date = PyNone
    /\ api_key = FALSE
    /\ document_url = PyStr(UrlUpd)
    /\ pc = "pair"
    /\ calls \in [Callers -> [pc : {"name"}, framework_name : FrameworkNames,
                               timestamp : {""}, body : Bodies, handle : {0},
                               returned : {"pending"}]]

\* The rest of the state belongs to no call of the pair.
PairFrame ==
    UNCHANGED <<inputs, pc, verdict_vars, document_url, fetch_vars, exc, file_vars,
                download_result, orch_vars, raised, history>>

Returns(c, value) == [c EXCEPT !.pc = "done", !.returned = value]

\* timestamp = datetime.now().strftime("%Y%m%d_%H%M%S"): the second the call is in.
PairName(p) ==
    /\ calls[p].pc = "name"
    /\ \E now \in Seconds :
          calls' = [calls EXCEPT ![p].timestamp = now, ![p].pc = "open"]
    /\ UNCHANGED disk
    /\ PairFrame

\* open(temp_filepath, 'wb'): a file of that name is emptied, else one is created.
PairOpen(p) ==
    /\ calls[p].pc = "open"
    /\ LET path == temp_filepath(calls[p])
           ino == IF Exists(path) THEN disk.at[path] ELSE p
       IN /\ disk' = [at |-> Linked(disk.at, path, ino),
                      data |-> Linked(disk.data, ino, NoData)]
          /\ calls' = [calls EXCEPT ![p].handle = ino, ![p].pc = "write"]
    /\ PairFrame

\* The body is written through the handle, from the start of the file, and the file is
\* closed; a file another call has unlinked meanwhile takes the bytes all the same.
PairWrite(p) ==
    /\ calls[p].pc = "write"
    /\ LET ino == calls[p].handle
           old == disk.data[ino]
           body == calls[p].body
       IN disk' = [disk EXCEPT !.data[ino] =
                      [head |-> body.head,
                       size |-> IF old.size > body.size THEN old.size ELSE body.size,
                       writers |-> old.writers \cup {p}]]
    /\ calls' = [calls EXCEPT ![p].pc = "magic"]
    /\ PairFrame

\* Lines 701 to 717: a missing file makes open raise and None is returned; a wrong
\* signature removes the file of that name and None is returned.
PairMagic(p) ==
    /\ calls[p].pc = "magic"
    /\ LET path == temp_filepath(calls[p])
       IN IF ~Exists(path)
          THEN calls' = [calls EXCEPT ![p] = Returns(@, "None")] /\ UNCHANGED disk
          ELSE IF ~IsPdfSignature(disk.data[disk.at[path]].head)
          THEN /\ calls' = [calls EXCEPT ![p] = Returns(@, "None")]
               /\ disk' = [disk EXCEPT !.at = Unlinked(@, path)]
          ELSE calls' = [calls EXCEPT ![p].pc = "size"] /\ UNCHANGED disk
    /\ PairFrame

\* Lines 719 to 727, with downloaded the bytes this call wrote; os.remove of a missing
\* file raises and the outer except clause returns None.
PairSize(p) ==
    /\ calls[p].pc = "size"
    /\ LET path == temp_filepath(calls[p])
       IN IF TooLarge(calls[p].body.size)
          THEN /\ calls' = [calls EXCEPT ![p] = Returns(@, "None")]
               /\ disk' = [disk EXCEPT !.at = Unlinked(@, path)]
          ELSE calls' = [calls EXCEPT ![p].pc = "rename"] /\ UNCHANGED disk
    /\ PairFrame

\* os.rename(temp_filepath, filepath): raises when the temporary file is gone (None is
\* returned), replaces a file that has the final name already.
PairRename(p) ==
    /\ calls[p].pc = "rename"
    /\ LET path == temp_filepath(calls[p])
       IN IF ~Exists(path)
          THEN calls' = [calls EXCEPT ![p] = Returns(@, "None")] /\ UNCHANGED disk
          ELSE /\ disk' = [disk EXCEPT
                              !.at = Linked(Unlinked(@, path), filepath(calls[p]), @[path])]
               /\ calls' = [calls EXCEPT ![p] = Returns(@, "filepath")]
    /\ PairFrame

NextPair ==
    \E p \in Callers :
        PairName(p) \/ PairOpen(p) \/ PairWrite(p) \/ PairMagic(p) \/ PairSize(p)
            \/ PairRename(p)

SpecPair == InitPair /\ [][NextPair]_vars

(***************************************************************************)
(* find_actual_pdf_url alone                                               *)
(***************************************************************************)
\* What the answers of the service are made of: the sentinel, prose, the opening of a
\* markdown link, and URLs.
MaxAnswerLen == 3
AnswerTokens ==
    { Word("NOT_FOUND"), Word("The amendment is at"), Word("[PDF]("),
      UrlTok(UrlUpd), UrlTok(UrlAlt), UrlTok(UrlPage), UrlTok(UrlUpper), UrlTok(UrlQuery) }
AnswerTexts == UNION { [1..n -> AnswerTokens] : n \in 0..MaxAnswerLen }

\* What the request and the reading of its answer can raise: raise_for_status, a
\* timeout or connection error, response.json() of a body that is no JSON, a body
\* without choices[0].message.content, a content that is null.
ResolverFailures == {"HTTPError", "RequestException", "ValueError", "KeyError", "AttributeError"}

\* "except Exception as e: return None", and a clause for the requests errors only.
ResolverExceptCatches_requests_only(e) == e \in RequestExceptions
ResolverExceptCatches(e) == e \in ResolverFailures \cup Exceptions

InitResolve ==
    /\ Fresh
    /\ calls = <<>>
    /\ entry = "find_actual_pdf_url"
    /\ content \in AnswerTexts
    /\ last_updated_date = PyNone
    /\ api_key = TRUE
    /\ document_url = PyStr(UrlPage)
    /\ pc = "resolve"

\* The service answers with the text content.
ResolverAnswered ==
    /\ pc = "resolve"
    /\ result' = find_actual_pdf_url(Answer(content))
    /\ pc' = "done"
    /\ UNCHANGED <<inputs, call_vars, verdict_vars, document_url, fetch_vars, exc, file_vars,
                   download_result, downloaded_path, downloaded_info, processing, raised>>

\* The request or the reading of the answer raises.
ResolverServiceFails ==
    /\ pc = "resolve"
    /\ \E e \in ResolverFailures :
          IF ResolverExceptCatches(e)
          THEN /\ result' = find_actual_pdf_url(ServiceFailure)
               /\ exc' = e /\ pc' = "done"
               /\ UNCHANGED raised
          ELSE /\ raised' = e /\ pc' = "raised"
               /\ UNCHANGED <<result, exc>>
    /\ UNCHANGED <<inputs, call_vars, verdict_vars, document_url, fetch_vars, file_vars,
                   download_result, downloaded_path, downloaded_info, processing>>

NextResolve == ResolverAnswered \/ ResolverServiceFails

SpecResolve == InitResolve /\ [][NextResolve]_vars

(***************************************************************************)
(* Properties                                                              *)
(***************************************************************************)
VerdictFields == {"has_update", "latest_update_date", "document_url", "version", "notes"}
SizeCeiling == MAX_AMENDMENT_SIZE_MB * BytesPerMB
Orchestrated == entry = "run_framework_update_check"
Succeeded == download_result.kind \in {"str", "dict"}
Unavailable == download_result.kind = "none"
NotPdfBody == response.present /\ FirstBytes(response) # PdfMagic
LastCheck == IF checked = <<>> THEN "" ELSE checked[Len(checked)]
VerdictKept ==
    \A k \in VerdictFields \cap DOMAIN update_info :
        k \in DOMAIN result /\ result[k] = update_info[k]
ResultPathIsNull == "downloaded_path" \in DOMAIN result /\ result["downloaded_path"] = PyNone

\* C1: for a body whose first four bytes are not %PDF, download_document never returns
\* a path or a dict, no file gets the permanent name and the orchestrator's
\* downloaded_path stays null; once the signature was looked at, the outcome is None
\* and the temporary file is gone.
C1_MagicNumber ==
    NotPdfBody =>
        /\ ~Succeeded
        /\ downloaded_path = PyNone
        /\ ~files.pdf.exists
        /\ checked # <<>> =>
              /\ checked \in {<<"not_pdf">>, <<"unreadable">>}
              /\ Unavailable
              /\ ~files.tmp.exists
        /\ (Orchestrated /\ pc = "done") => ResultPathIsNull

\* C1: a 2048-byte HTML body declared application/pdf went through the orchestrator.
C1_Witness ==
    /\ Orchestrated
    /\ pc = "done"
    /\ NotPdfBody
    /\ response.ctype = "application/pdf"
    /\ response.size = 2048
    /\ checked = <<"not_pdf">>
    /\ ResultPathIsNull

\* C2: a successful download has at most 15 * 1024 * 1024 bytes, counted as written;
\* a body with the signature is rejected exactly when the bytes written exceed that,
\* whatever content-length declared; the rejected file is deleted, the outcome is None,
\* and the result has a null downloaded_path and the verdict's fields.
C2_SizeCeiling ==
    /\ Succeeded => (downloaded <= SizeCeiling /\ files.pdf.size = downloaded)
    /\ Len(checked) = 2 => (checked[2] = "too_large" <=> response.size > SizeCeiling)
    /\ LastCheck = "too_large" =>
          /\ Unavailable
          /\ files = NoFiles
          /\ downloaded_path = PyNone
          /\ (Orchestrated /\ pc = "done") => (ResultPathIsNull /\ VerdictKept)

\* C2: a PDF one byte over the ceiling, with another content-length declared, was
\* rejected and the orchestrator returned.
C2_Witness ==
    /\ Orchestrated
    /\ pc = "done"
    /\ checked = <<"magic_ok", "too_large">>
    /\ downloaded = SizeCeiling + 1
    /\ response.clen = "wrong"
    /\ ResultPathIsNull

\* C3: a file with the permanent name exists only after the signature check and then
\* the size check have passed, and then no temporary file exists; after a failed check
\* neither file exists.
C3_PermanentName ==
    /\ files.pdf.exists =>
          /\ checked = <<"magic_ok", "size_ok">>
          /\ ~files.tmp.exists
          /\ FirstBytes(files.pdf) = PdfMagic
          /\ files.pdf.size <= SizeCeiling
    /\ LastCheck \in {"not_pdf", "unreadable", "too_large"} => files = NoFiles

\* C3: the file has just been renamed.
C3_Witness ==
    /\ pc = "dd_upload"
    /\ files.pdf.exists
    /\ files.pdf.size = SizeCeiling
    /\ checked = <<"magic_ok", "size_ok">>

\* C4: when download_document has ended without a path or a dict (None returned, or an
\* exception left it), no temporary file exists.
C4_NoOrphan ==
    (Unavailable \/ pc \in {"raised", "orch_except"}) => ~files.tmp.exists

\* The verdict before "Validate date ordering", and its date parsed.
Claimed == VerdictOf(extracted.parsed, last_updated_date)
DateOf(d) ==
    IF Get(d, "latest_update_date").ty = "str" /\ Truthy(Get(d, "latest_update_date"))
    THEN ParseAnyFormat(Get(d, "latest_update_date")) ELSE NoDate
Baseline == Strptime(last_updated_date, date_formats[1])
QueryReturned == pc = "done" /\ entry = "query_perplexity_api"

\* C5: when the extracted verdict has has_update true and a date that parses and is
\* not after the baseline, the returned has_update is false without a document_url
\* and is what it was with one.
C5_Reconcile ==
    (/\ QueryReturned
     /\ Truthy(Get(Claimed, "has_update"))
     /\ IsDate(DateOf(Claimed))
     /\ DateLE(DateOf(Claimed), Baseline)) =>
        IF Truthy(Get(Claimed, "document_url"))
        THEN update_info["has_update"] = Claimed["has_update"]
        ELSE update_info["has_update"] = PyFalse

\* C5: a strict parse claimed an update dated on the baseline itself, with no URL, and
\* the returned has_update is false.
C5_Witness ==
    /\ QueryReturned
    /\ extracted.tier = "strict"
    /\ Get(Claimed, "has_update") = PyTrue
    /\ IsDate(DateOf(Claimed))
    /\ DateOf(Claimed) = Baseline
    /\ ~Truthy(Get(Claimed, "document_url"))
    /\ update_info["has_update"] = PyFalse

\* C6: when the extracted verdict has has_update true and a date that parses in no
\* accepted format, the returned has_update is true exactly when a document_url is
\* present.
C6_UnparseableDate ==
    (/\ QueryReturned
     /\ Truthy(Get(Claimed, "has_update"))
     /\ Get(Claimed, "latest_update_date").ty = "str"
     /\ Truthy(Get(Claimed, "latest_update_date"))
     /\ ~IsDate(DateOf(Claimed))) =>
        (Truthy(Get(update_info, "has_update")) <=> Truthy(Get(update_info, "document_url")))

\* C7: in the returned verdict, without a document URL has_update is true exactly when
\* the date is strictly after the baseline, and with a document URL has_update is true.
C7_DateRule ==
    QueryReturned =>
        IF Truthy(Get(update_info, "document_url"))
        THEN Truthy(Get(update_info, "has_update"))
        ELSE Truthy(Get(update_info, "has_update")) <=>
                (IsDate(DateOf(update_info)) /\ DateGT(DateOf(update_info), Baseline))

\* C8: once the verdict is there, download_document has been called only if has_update
\* is true and document_url is not null and not empty, and is called whenever they
\* are; otherwise no resolver query and no HTTP request is made, nothing is written,
\* and the result's downloaded_path is null.
C8_DownloadIff ==
    (Orchestrated /\ update_info # <<>>) =>
        /\ document_url # PyNone =>
              /\ Truthy(Get(update_info, "has_update"))
              /\ Truthy(Get(update_info, "document_url"))
        /\ (/\ pc # "decide"
            /\ Truthy(Get(update_info, "has_update"))
            /\ Truthy(Get(update_info, "document_url"))) =>
              document_url = update_info["document_url"]
        /\ document_url = PyNone =>
              /\ n_resolver = 0
              /\ n_http = 0
              /\ download_result = Pending
              /\ files = NoFiles
              /\ downloaded_path = PyNone
              /\ pc = "done" => ResultPathIsNull

\* C8: the verdict has a document_url and has_update false, and the orchestrator
\* returned without a request.
C8_Witness ==
    /\ Orchestrated
    /\ pc = "done"
    /\ Get(update_info, "has_update") = PyFalse
    /\ Truthy(Get(update_info, "document_url"))
    /\ n_resolver = 0
    /\ n_http = 0
    /\ ResultPathIsNull

\* C9: once query_perplexity_api has returned, run_framework_update_check raises
\* nothing and stops only by returning; the record it returns has the verdict's fields
\* and a downloaded_path that is null or the local path, and null when
\* download_document gave None or raised.
C9_AlwaysReturns ==
    (Orchestrated /\ update_info # <<>>) =>
        /\ pc # "raised"
        /\ raised = "none"
        /\ ~ENABLED Next => pc = "done"
        /\ pc = "done" =>
              /\ VerdictKept
              /\ "downloaded_path" \in DOMAIN result
              /\ result["downloaded_path"] \in {PyNone, FinalPath}
              /\ ~Succeeded => ResultPathIsNull

\* C9: access was denied on every attempt of the budget, and the orchestrator returned.
C9_Witness ==
    /\ Orchestrated
    /\ pc = "done"
    /\ exc = "HTTPError403"
    /\ retry_count = max_retries - 1
    /\ Unavailable
    /\ VerdictKept
    /\ ResultPathIsNull

\* C10: once the service has answered, query_perplexity_api returns a verdict and
\* raises nothing, whatever the text.
C10_NeverRaises ==
    (entry = "query_perplexity_api" /\ extracted # NotExtracted) =>
        (pc = "done" /\ raised = "none")

StrictParse == json_loads(_clean_response_content(content))
Recovered == PermissiveRecovery(content)

\* C11: a successful strict parse of the cleaned text is the parsed value, with no
\* other tier run; permissive recovery gives the parsed value only when the strict
\* parse failed; the text scan gives it only when the strict parse failed and
\* permissive recovery loaded nothing.
C11_TiersInOrder ==
    extracted # NotExtracted =>
        /\ StrictParse.ok =>
              (extracted.tier = "strict" /\ extracted.parsed = StrictParse.parsed)
        /\ extracted.tier = "permissive" =>
              (~StrictParse.ok /\ Recovered # NoParse /\ extracted.parsed = Recovered)
        /\ extracted.tier = "heuristic" =>
              (~StrictParse.ok /\ Recovered = NoParse)

\* C11: the text scan produced the verdict of an answer in prose.
C11_Witness ==
    /\ QueryReturned
    /\ extracted.tier = "heuristic"
    /\ ~StrictParse.ok
    /\ Recovered = NoParse
    /\ Truthy(Get(update_info, "document_url"))

\* What the text scan finds in the answer.
ScannedTier == QueryReturned /\ extracted.tier = "heuristic"
FoundUrl == ExtractUrl(content)
FoundDate == IF ExtractDate(content) = <<>> THEN NoDate
             ELSE ParseAnyFormat(PyStr(ExtractDate(content)))
Scanned == extracted.parsed.d

\* C12: when the text scan finds a URL, the scan's verdict and the returned verdict
\* have that URL and has_update true, with or without an update-indicating phrase and
\* whatever date was found.
C12_UrlDecides ==
    (ScannedTier /\ FoundUrl # PyNone) =>
        /\ Scanned["has_update"] = PyTrue
        /\ update_info["has_update"] = PyTrue
        /\ update_info["document_url"] = FoundUrl

\* C12: prose with a URL, no update-indicating phrase and a date before the baseline.
C12_Witness ==
    /\ ScannedTier
    /\ FoundUrl = PyStr(UrlUpd)
    /\ ~has_update_mention(content)
    /\ IsDate(FoundDate)
    /\ DateLE(FoundDate, Baseline)
    /\ update_info["has_update"] = PyTrue

\* C13: when the text scan finds no URL and a date that parses, the scan's verdict and
\* the returned verdict have has_update true exactly when that date is strictly after
\* the baseline, with or without an update-indicating phrase.
C13_DateDecides ==
    (ScannedTier /\ FoundUrl = PyNone /\ IsDate(FoundDate)) =>
        /\ Scanned["has_update"] = PyBool(DateGT(FoundDate, Baseline))
        /\ update_info["has_update"] = PyBool(DateGT(FoundDate, Baseline))

\* C13: prose with no URL, no update-indicating phrase and a date after the baseline.
C13_Witness ==
    /\ ScannedTier
    /\ FoundUrl = PyNone
    /\ IsDate(FoundDate)
    /\ DateGT(FoundDate, Baseline)
    /\ ~has_update_mention(content)
    /\ update_info["has_update"] = PyTrue

\* C14: when the text scan finds no URL and no date, the returned has_update is true
\* exactly when the text has an update-indicating phrase.
C14_KeywordDecides ==
    (ScannedTier /\ FoundUrl = PyNone /\ ExtractDate(content) = <<>>) =>
        (update_info["has_update"] = PyTrue <=> has_update_mention(content))

\* C15: when no tier produced a non-empty object, query_perplexity_api returns the
\* neutral verdict: has_update false, the baseline as latest_update_date, document_url
\* null.
C15_NeutralVerdict ==
    (/\ entry = "query_perplexity_api"
     /\ extracted # NotExtracted
     /\ ~(extracted.parsed.kind = "dict" /\ ParsedTruthy(extracted.parsed))) =>
        /\ pc = "done"
        /\ update_info = NeutralVerdict(last_updated_date)

(***************************************************************************)
(* The retry budget of download_document                                   *)
(***************************************************************************)
DdCalled == pc = "dd_start"
DdReturned == download_result # Pending
DdEscaped == (entry = "download_document" /\ pc = "raised") \/ pc = "orch_except"
WithinBudget ==
    /\ attempt.n <= max_retries
    /\ n_http <= 2 * attempt.n
    /\ n_resolver <= max_retries

\* C16, as stated: every invocation of download_document terminates with a successful
\* outcome or None, after at most 3 attempts of at most two requests each and at most 3
\* resolver queries.
C16_TerminatesOrNone ==
    /\ [](WithinBudget /\ ~DdEscaped)
    /\ (DdCalled ~> (Succeeded \/ Unavailable))

\* C16, amended: every invocation of download_document ends within that budget, with a
\* successful outcome, with None, or, before any request is sent, with the OSError of
\* os.makedirs when the download directory cannot be created.
C16_Terminates ==
    /\ [](WithinBudget)
    /\ [](DdEscaped => n_http = 0 /\ n_resolver = 0 /\ "OSError" \in {raised, exc})
    /\ [](DdReturned => Succeeded \/ Unavailable)
    /\ (DdCalled ~> (DdReturned \/ DdEscaped))

\* The whole budget is spent: three attempts of two requests each and three resolver
\* queries, and the call returns None.
C16_Witness ==
    /\ entry = "download_document" /\ pc = "done" /\ Unavailable
    /\ attempt.n = max_retries /\ n_http = 2 * max_retries /\ n_resolver = max_retries

(***************************************************************************)
(* Access denied: the resolver and the next attempt                        *)
(***************************************************************************)
\* An attempt was answered 403 and attempts remain.
Denied == pc = "dd_except" /\ exc = "HTTPError403" /\ retry_count < max_retries - 1
DirectAndNew(url, tried) == url # PyNone /\ EndsWithPdf(url) /\ url # tried

\* The resolver is asked before anything else is requested, and the next attempt is for
\* the URL it returned when that is a new direct '.pdf' URL, for the same URL otherwise.
AsksResolverThenRetries ==
    /\ n_resolver' = n_resolver + 1
    /\ n_http' = n_http
    /\ retry_count' = retry_count + 1
    /\ pc' = "dd_loop"
    /\ url_to_fetch' = IF DirectAndNew(alternate_url', url_to_fetch)
                       THEN alternate_url' ELSE url_to_fetch
    /\ UNCHANGED <<download_result, raised>>

\* An attempt that succeeds gives the response of the URL it was made for, and nothing
\* is returned or raised at that point.
AttemptGivesResponse ==
    pc = "dd_attempt" /\ pc' = "dd_after_loop" =>
        /\ response'.present /\ response'.url = url_to_fetch
        /\ UNCHANGED <<download_result, raised>>

\* A successful outcome is the body of the last URL tried.
OutcomeIsLastUrl ==
    Succeeded =>
        /\ response.present /\ response.url = url_to_fetch
        /\ files.pdf = File(response.head, response.size)
        /\ ~DdEscaped

\* C17, as stated: whenever an attempt is answered 403 and attempts remain, the resolver
\* is queried before the next attempt, which uses the URL it returned when that is a
\* direct '.pdf' URL other than the one just tried and the same URL otherwise; when
\* that attempt succeeds the outcome is the content of that URL and no error surfaces.
C17_ResolverOn403 ==
    /\ [][(Denied => AsksResolverThenRetries) /\ AttemptGivesResponse]_vars
    /\ []OutcomeIsLastUrl

\* C17, amended: the same, when download_document was given an API key.
C17_ResolverOn403WithKey ==
    /\ [][(Denied /\ api_key => AsksResolverThenRetries) /\ AttemptGivesResponse]_vars
    /\ []OutcomeIsLastUrl

\* The first attempt is denied, the resolver returns another URL, the second attempt
\* succeeds and the document of the other URL is the outcome.
C17_Witness ==
    /\ Succeeded
    /\ attempt.n = 2 /\ n_resolver = 1
    /\ alternate_url # PyNone /\ alternate_url # document_url
    /\ url_to_fetch = alternate_url /\ response.url = alternate_url

(***************************************************************************)
(* The requests of one attempt                                             *)
(***************************************************************************)
Requests == attempt.requests
AttemptFailed == pc = "dd_except"

\* C18: in one call of _attempt_download a second request, with another User-Agent and
\* the origin of the URL as Referer, is sent exactly once and at once if and only if
\* the first request was answered 403; when it fails too the attempt fails with the
\* first 403 whatever the second failure was, and any other HTTP error fails the
\* attempt after one request.
C18_HeaderRetry ==
    /\ [](attempt.n > 0 =>
            /\ Len(Requests) \in {1, 2}
            /\ Len(Requests) = 2 <=> Requests[1].answer = "HTTPError403"
            /\ Len(Requests) = 2 =>
                  /\ Requests[2].url = Requests[1].url
                  /\ Requests[2].headers.UserAgent # Requests[1].headers.UserAgent
                  /\ Requests[2].headers.Referer =
                        PyStr(<<Requests[1].url.v[1], Requests[1].url.v[2], "/">>)
            /\ AttemptFailed => exc = Requests[1].answer)
    /\ [][attempt' # attempt =>
            /\ n_http' = n_http + Len(attempt'.requests)
            /\ UNCHANGED <<sleeps, n_resolver, retry_count, url_to_fetch>>]_vars

\* Both requests of an attempt failed, the second one with a connection error, and the
\* attempt failed with the 403.
C18_Witness ==
    /\ AttemptFailed /\ exc = "HTTPError403"
    /\ Len(Requests) = 2
    /\ Requests[2].answer = "RequestException"
    /\ Requests[2].headers.Referer = PyStr(<<"https://", "x.org", "/">>)

(***************************************************************************)
(* Transient network failures                                              *)
(***************************************************************************)
\* A connection error or timeout (a RequestException that is no HTTPError) ends the
\* call: an except clause catches it and None is returned.
TransientSurfaces ==
    /\ download_result = Pending /\ download_result' = ReturnNone
    /\ pc \in {"dd_except", "dd_stream"}
    /\ exc' = "RequestException"

\* The handler of the retry loop has caught one with attempts left.
TransientCaught == pc = "dd_except" /\ exc = "RequestException" /\ attempt.n < max_retries

\* C19: a transient network failure on the first or second attempt does not end the
\* acquisition but is followed by another attempt after a wait of 2^k seconds, k the
\* number of attempts failed so far; only one on the third attempt is surfaced.
C19_TransientRetried ==
    [][/\ TransientSurfaces => attempt.n = max_retries
       /\ TransientCaught =>
             /\ sleeps' = Append(sleeps, 2 ^ attempt.n)
             /\ retry_count' = attempt.n /\ pc' = "dd_loop"
             /\ UNCHANGED <<download_result, raised, response, url_to_fetch>>]_vars

(***************************************************************************)
(* Access denied and the attempt budget                                    *)
(***************************************************************************)
\* The handler of the retry loop has caught the 403 of an attempt.
DeniedCaught == pc = "dd_except" /\ exc = "HTTPError403"

\* C20: a 403 on the first or second attempt never ends the acquisition, with or
\* without an API key and whatever the resolver finds: the next attempt follows; a 403
\* on the third attempt makes download_document return None, and no 403 is ever raised
\* out of it.
C20_DeniedOnlyAfterBudget ==
    /\ [][/\ DeniedCaught /\ attempt.n < max_retries =>
               /\ pc' = "dd_loop" /\ retry_count' = attempt.n
               /\ ~response'.present
               /\ UNCHANGED <<download_result, raised>>
          /\ DeniedCaught /\ attempt.n = max_retries =>
               /\ download_result' = ReturnNone /\ pc' = ReturnPc
               /\ UNCHANGED raised]_vars
    /\ [](DeniedCaught => attempt.n <= max_retries)
    /\ [](DdEscaped => "HTTPError403" \notin {raised, exc})

\* Without an API key every attempt was answered 403, on both requests, and the call
\* returned None.
C20_Witness ==
    /\ entry = "download_document" /\ pc = "done" /\ Unavailable
    /\ ~api_key /\ n_resolver = 0
    /\ exc = "HTTPError403" /\ attempt.n = max_retries /\ n_http = 2 * max_retries

(***************************************************************************)
(* Validation failures are final                                           *)
(***************************************************************************)
ValidationFailed == LastCheck \in {"not_pdf", "too_large"}

\* C21: once the body has failed the magic-number or the size check, the call has
\* returned None with the temporary file removed and nothing raised, and no request
\* and no resolver query follows, whatever is left of the attempt budget.
C21_ValidationFinal ==
    /\ [](ValidationFailed =>
            /\ Unavailable /\ ~DdEscaped /\ pc # "raised"
            /\ ~files.tmp.exists /\ ~files.pdf.exists)
    /\ [][ValidationFailed => UNCHANGED <<fetch_vars, file_vars, download_result>>]_vars

\* The first attempt of three gave a PDF that is too large, and the call is over.
C21_Witness ==
    /\ LastCheck = "too_large" /\ pc = "done"
    /\ attempt.n = 1 /\ retry_count = 0 /\ n_http = 1

(***************************************************************************)
(* The resolver before the first attempt                                   *)
(***************************************************************************)
\* The candidate URL ends in ".pdf", in any case of the letters.
IsPdfLink(url) == Len(url.v) > 0 /\ url.v[Len(url.v)] \in {".pdf", ".PDF"}
Validating == pc = "dd_validate"

\* C22: with a candidate URL, the resolver is queried before the first attempt if and
\* only if the URL does not end in ".pdf" (in any case) and there is an API key to query
\* it with; an attempt is made only for a direct ".pdf" URL, the candidate or the
\* resolver's; otherwise the acquisition is skipped: None is returned, nothing is
\* raised, no request is sent and no file is created.
C22_ResolveFirst ==
    /\ [](Validating => n_resolver = 0 /\ n_http = 0 /\ Truthy(document_url))
    /\ [][Validating =>
            /\ n_resolver' = IF ~IsPdfLink(document_url) /\ api_key THEN 1 ELSE 0
            /\ IsPdfLink(document_url) => pc' = "dd_loop" /\ url_to_fetch' = document_url
            /\ ~IsPdfLink(document_url) /\ pc' = "dd_loop" =>
                  api_key /\ IsPdfLink(url_to_fetch')
            /\ pc' # "dd_loop" =>
                  /\ download_result' = ReturnNone /\ pc' = ReturnPc
                  /\ UNCHANGED <<n_http, attempt, file_vars, raised>>]_vars
    /\ [](attempt.n = 0 /\ DdReturned =>
            Unavailable /\ n_http = 0 /\ files = NoFiles /\ ~DdEscaped)

\* The resolver was asked about a page and had no direct link: the call returned None
\* without a request or a file.
C22_Witness ==
    /\ entry = "download_document" /\ pc = "done" /\ Unavailable
    /\ api_key /\ ~IsPdfLink(document_url)
    /\ n_resolver = 1 /\ n_http = 0 /\ files = NoFiles

(***************************************************************************)
(* What the resolver returns                                               *)
(***************************************************************************)
Resolved == entry = "find_actual_pdf_url" /\ pc = "done"
ServiceAnswered == exc = ""

\* C23: find_actual_pdf_url returns a URL only when the answer of the service is
\* exactly one bare URL ending in ".pdf", and that URL; the sentinel and every other
\* answer give None.
C23_BareUrlOnly ==
    Resolved /\ ServiceAnswered =>
        result = IF Len(content) = 1 /\ content[1].t = "url"
                    /\ content[1].j.v[Len(content[1].j.v)] = ".pdf"
                 THEN content[1].j
                 ELSE PyNone

\* C24: find_actual_pdf_url never raises; when the request fails, times out, or its
\* answer is malformed or lacks the expected fields, and on the sentinel, it returns
\* None, and a URL it returns ends in ".pdf".  (What download_document does with None is
\* part of C22_ResolveFirst.)
C24_ResolverNeverRaises ==
    entry = "find_actual_pdf_url" =>
        /\ pc # "raised" /\ raised = ""
        /\ Resolved =>
              /\ ~ServiceAnswered => result = PyNone
              /\ ServiceAnswered /\ content = <<Word("NOT_FOUND")>> => result = PyNone
              /\ result # PyNone =>
                    result.ty = "str" /\ result.v[Len(result.v)] = ".pdf"

\* The body of the answer had no choices[0].message.content: None is returned.
C24_Witness == Resolved /\ exc = "KeyError" /\ result = PyNone

(***************************************************************************)
(* The result record                                                       *)
(***************************************************************************)
RecordReturned == Orchestrated /\ pc = "done"

\* C25: the record run_framework_update_check returns has every verdict field exactly
\* as query_perplexity_api returned it, whether the acquisition was skipped, failed,
\* succeeded, was uploaded or processed; nothing after the query changes the verdict.
C25_VerdictUntouched ==
    /\ [](RecordReturned =>
            \A k \in VerdictFields :
                /\ k \in DOMAIN result <=> k \in DOMAIN update_info
                /\ k \in DOMAIN result => result[k] = update_info[k])
    /\ [][pc # "query" => UNCHANGED update_info]_vars

\* A document was downloaded, uploaded and processed, and the record is returned.
C25_Witness ==
    /\ RecordReturned /\ downloaded_info.kind = "dict" /\ processing.ran
    /\ "s3_url" \in DOMAIN result /\ "processing_result" \in DOMAIN result
    /\ "document_url" \in DOMAIN result

(***************************************************************************)
(* Upload failure                                                          *)
(***************************************************************************)
\* download_document returned the path alone: the upload reported failure or raised.
UploadFailed == download_result.kind = "str"
StorageFields == {"s3_url", "s3_key", "s3_stored_name"}

\* C26: when the upload fails or raises after a validated download, download_document
\* returns the local path and raises nothing, the file keeps its permanent name, and
\* the result record has that path as downloaded_path and no storage URL.
C26_UploadNeverFatal ==
    /\ [](UploadFailed =>
            /\ download_result.local_path = FinalPath /\ ~DdEscaped /\ pc # "raised"
            /\ files.pdf.exists /\ ~files.tmp.exists /\ LastCheck = "size_ok")
    /\ [](UploadFailed /\ RecordReturned =>
            /\ result["downloaded_path"] = FinalPath
            /\ StorageFields \cap DOMAIN result = {})

(***************************************************************************)
(* Downstream processing                                                   *)
(***************************************************************************)
Processed == processing.ran

\* C27: the amendment processing runs only when the caller set process_amendment and
\* gave a framework id and a document was downloaded; whether it succeeds, fails or
\* raises, its outcome is in the result record (success false for a failure or an
\* exception), and downloaded_path and the verdict fields are as they were.
C27_ProcessingOptional ==
    /\ [](Processed =>
            /\ Orchestrated /\ Succeeded
            /\ processing.process_amendment /\ Truthy(processing.framework_id)
            /\ downloaded_path = download_result.local_path /\ files.pdf.exists)
    /\ [](Processed /\ RecordReturned =>
            /\ result["processing_result"] = processing.processing_result
            /\ processing.processing_result \in {ProcessingSucceeded, ProcessingFailed}
            /\ result["downloaded_path"] = download_result.local_path
            /\ \A k \in VerdictFields \cap DOMAIN update_info : result[k] = update_info[k])
    /\ [][pc = "process" =>
            UNCHANGED <<update_info, downloaded_path, downloaded_info, download_result,
                        file_vars>>]_vars

\* The processing failed, and the record has its outcome next to the downloaded path.
C27_Witness ==
    /\ RecordReturned /\ Processed
    /\ result["processing_result"] = ProcessingFailed
    /\ result["downloaded_path"] = FinalPath

(***************************************************************************)
(* Concurrent calls                                                        *)
(***************************************************************************)
Named(p) == calls[p].pc # "name"
Kept(p) == calls[p].returned = "filepath"

\* C28: two concurrent calls of download_document, also for the same framework name
\* or for names with the same sanitised form and in the same second, have different
\* temporary files and different final files, so that a file is written, validated,
\* renamed or removed only by the call it belongs to: a call that returns its path
\* has left there the body it downloaded, and nothing else.
C28_OwnFiles ==
    /\ \A p, q \in Callers :
          p # q /\ Named(p) /\ Named(q) =>
              /\ temp_filepath(calls[p]) # temp_filepath(calls[q])
              /\ filepath(calls[p]) # filepath(calls[q])
    /\ \A p \in Callers :
          Kept(p) /\ (\A q \in Callers : calls[q].pc = "done") =>
              /\ Exists(filepath(calls[p]))
              /\ disk.data[disk.at[filepath(calls[p])]] =
                    [head |-> calls[p].body.head, size |-> calls[p].body.size,
                     writers |-> {p}]

(***************************************************************************)
(* The fields of the result record                                         *)
(***************************************************************************)
RecordFields == VerdictFields \cup {"framework_name", "downloaded_path"}

\* C29: every record run_framework_update_check returns has the fields framework_name,
\* has_update, latest_update_date, document_url, version, notes and downloaded_path,
\* whichever tier produced the verdict.
C29_RecordFields == RecordReturned => RecordFields \subseteq DOMAIN result

ProseAround(obj) == { Pad(n) \o obj \o <<Word("thanks")>> : n \in 0..MaxPad }
ProseWithBraces(obj) == { <<LB, Word("remark"), RB>> \o obj }
FencedMarkdown(obj) ==
    { <<FenceJson>> \o obj \o <<Fence>>,
      <<Fence>> \o obj \o <<Fence>>,
      <<Word("note"), Fence, Word("draft"), Fence, FenceJson>> \o obj \o <<Fence>> }
RoundTripWrappings(obj) == ProseAround(obj) \cup ProseWithBraces(obj) \cup FencedMarkdown(obj)

\* The service answered and the call has ended, by a return or by an exception.
QueryEnded ==
    entry = "query_perplexity_api" /\ pc \in {"done", "raised"} /\ extracted.tier # ""
SameAsDirect(obj) ==
    LET direct == query_perplexity_api(obj, last_updated_date)
    IN Outcome = [raised |-> direct.raised, verdict |-> direct.verdict]

\* C31: a valid JSON verdict object wrapped in prose (braces in the prose included) or
\* in fenced markdown gives the verdict that the object alone gives.
C31_RoundTrip ==
    \A hu \in WrappedHasUpdate, date \in WrappedDates, url \in WrappedUrls :
        (QueryEnded /\ content \in RoundTripWrappings(Object("dq", hu, date, url)))
            => SameAsDirect(Object("dq", hu, date, url))
\* The round trip of the wrappings without braces in the prose.
C31_RoundTripWithoutBraces ==
    \A hu \in WrappedHasUpdate, date \in WrappedDates, url \in WrappedUrls :
        (QueryEnded /\ content \in ProseAround(Object("dq", hu, date, url))
                                     \cup FencedMarkdown(Object("dq", hu, date, url)))
            => SameAsDirect(Object("dq", hu, date, url))

\* _clean_response_content has returned.
Cleaned == entry = "_clean_response_content" /\ pc = "done"
\* What the priority order selects: the inside of the first ```json block, else of the
\* first fenced block, else the leftmost brace group, else the text itself.
Selected(json_fence, any_fence, braces) ==
    IF json_fence.found THEN json_fence.text
    ELSE IF any_fence.found THEN any_fence.text
    ELSE IF braces.found THEN braces.text
    ELSE content
SelectedText ==
    Selected(SearchJsonFence(content), SearchAnyFence(content), SearchNestedBraces(content))
IsText(s) == DOMAIN s = 1..Len(s) /\ \A i \in DOMAIN s : s[i].t \in
    {"ws", "fence_json", "fence", "lb", "rb", "mem", "key", "val", "word", "url", "date"}

AfterBaseline(d) == IsDate(DateOf(d)) /\ IsDate(Baseline) /\ DateGT(DateOf(d), Baseline)

\* C33: the returned verdict is the verdict that went into the reconciliation, but for
\* has_update, which is either what it was or was truthy and is False; a verdict with
\* a falsy has_update, or dated strictly after the baseline, is returned as it was.
C33_ReconcileFrame ==
    QueryReturned =>
        /\ DOMAIN update_info = DOMAIN Claimed
        /\ \A k \in DOMAIN Claimed \ {"has_update"} : update_info[k] = Claimed[k]
        /\ \/ Get(update_info, "has_update") = Get(Claimed, "has_update")
           \/ Truthy(Get(Claimed, "has_update")) /\ update_info["has_update"] = PyFalse
        /\ (~Truthy(Get(Claimed, "has_update")) \/ AfterBaseline(Claimed))
              => update_info = Claimed
        /\ result = update_info
\* A strict parse with has_update true, a page URL and a date after the baseline was
\* returned as it was.
C33_Witness ==
    /\ QueryReturned
    /\ extracted.tier = "strict"
    /\ Get(Claimed, "has_update") = PyTrue
    /\ Get(Claimed, "document_url") = PyStr(UrlPage)
    /\ AfterBaseline(Claimed)
    /\ update_info = Claimed
\* The other case: has_update was revoked and nothing else changed.
C33_Revoked ==
    /\ QueryReturned
    /\ Get(Claimed, "has_update") = PyStr(<<"yes">>)
    /\ update_info = [Claimed EXCEPT !["has_update"] = PyFalse]

\* The places of download_document after its retry loop.
AfterLoop == {"dd_after_loop", "dd_stream", "dd_magic", "dd_size", "dd_rename", "dd_upload"}

\* C34: the retry loop of download_document is left without an exception only with a
\* response: the attempt counter never reaches max_retries, and wherever the code after
\* the loop runs the response is present.
C34_ResponseAfterLoop ==
    /\ retry_count < max_retries
    /\ pc \in AfterLoop => response.present
    /\ (pc = "dd_loop" /\ ~response.present) => retry_count < max_retries
\* The loop was left on the third attempt, after two failed ones.
C34_Witness ==
    /\ pc = "dd_after_loop"
    /\ retry_count = max_retries - 1
    /\ attempt.n = max_retries
    /\ response.present

\* The upload of this invocation succeeded: download_document returned the record.
UploadSucceeded == download_result.kind = "dict"

\* C35: the returned record has storage fields only when the upload of this
\* invocation succeeded, and then those it gave; it has a processing_result only
\* when the processing of this invocation ran, and then its outcome: a field of one
\* of these names in the answer of the service is not in the record.
C35_FieldsOfThisRun ==
    RecordReturned =>
        /\ StorageFields \cap DOMAIN result # {} =>
              /\ UploadSucceeded
              /\ result["s3_url"] = download_result.s3_url
              /\ result["s3_key"] = download_result.s3_key
              /\ result["s3_stored_name"] = download_result.stored_name
        /\ "processing_result" \in DOMAIN result =>
              Processed /\ result["processing_result"] = processing.processing_result

\* The exceptions of the first request: the missing key, an error status, a timeout
\* or connection error, a body without choices[0].message.content.
FirstRequestErrors == {"ValueError", "HTTPError", "RequestException", "KeyError"}
\* run_framework_update_check ended by an exception before any answer was extracted.
FirstRequestFailed ==
    entry = "run_framework_update_check" /\ pc = "raised" /\ extracted = NotExtracted
NothingAttempted ==
    /\ result = <<>> /\ update_info = <<>>
    /\ download_result = Pending /\ downloaded_path = PyNone
    /\ n_http = 0 /\ n_resolver = 0 /\ attempt = NoAttempt /\ files = NoFiles
    /\ ~processing.ran

\* C36: a step from the first request that extracts no answer ends the call with the
\* exception of the request; without a key that is the only step; the exception is
\* never left behind, and with it there is no record, no verdict, no download
\* attempt, no resolver query and no file.
C36_FirstRequestFailurePropagates ==
    /\ [][(pc = "query" /\ extracted' = NotExtracted) =>
              pc' = "raised" /\ raised' \in FirstRequestErrors]_vars
    /\ [][(pc = "query" /\ ~api_key) => pc' = "raised" /\ raised' = "ValueError"]_vars
    /\ [][pc = "raised" => pc' = "raised" /\ raised' = raised]_vars
    /\ [](FirstRequestFailed => raised \in FirstRequestErrors /\ NothingAttempted)
\* The service timed out on a call that had a key: the exception left the orchestrator.
C36_Witness ==
    /\ FirstRequestFailed
    /\ api_key
    /\ raised = "RequestException"
    /\ NothingAttempted

====
